---------------------------- MODULE Spec2Model ----------------------------
(***************************************************************************)
(* A model of the LinkedIn Easy Apply bot (stag7824/Autobot_linkedIn):     *)
(*   - the AI answer routing of src/services/aiService.js,                 *)
(*   - the field and checkbox fillers of src/bot/LinkedInBot.js,           *)
(*   - the Easy Apply dialog driver handleEasyApplyModal,                  *)
(*   - the run / start / stop orchestration of src/index.js and the        *)
(*     dashboard,                                                          *)
(*   - applyToJob and the counters of src/services/stateManager.js.        *)
(* Texts are JavaScript strings; includes / toLowerCase / trim work on     *)
(* their characters, as the code computes them.                            *)
(***************************************************************************)
EXTENDS Integers, Sequences, FiniteSets, TLC

VARIABLES
    \* ---- aiService.js module state
    activeProvider,       \* "none" | "gemini" | "openrouter"
    geminiAvailable,
    openrouterAvailable,
    geminiModel,          \* TRUE when the model handle is set
    openrouterClient,     \* TRUE when the client handle is set
    aiKeys,               \* config.ai: [gemini |-> BOOLEAN, openrouter |-> BOOLEAN]
    aiLast,               \* the last aiService operation and what it did
    rateLimited,          \* the primary failed with a rate-limit while a backup was available
    \* ---- fillFormFields / handleCheckboxes of one dialog step
    config,               \* the configuration snapshot of the run
    fillPc,               \* "idle" | "fields" | "checkboxes"
    fillLeft,             \* form groups / checkboxes the running loop has still to visit
    fillCur,              \* the form group / checkbox the loop body has read from the document
    fillLast,             \* what the loop body did to the last group / checkbox
    \* ---- handleEasyApplyModal
    dom,                  \* the document of the page
    pc,                   \* where handleEasyApplyModal stands
    step,                 \* its step counter
    result,               \* its return value, once pc = "done"
    exit,                 \* how it returned: "success" | "gone" | "exhausted"
    cands,                \* the buttons the running tryClick* has still to try
    clicks,               \* advance clicks dispatched to the N-step dialog so far
    clicked,              \* the clicks the last step dispatched
    scriptN,              \* the dialog has behaved as an N-step dialog so far (0: it has not)
    scriptShown,          \* the steps of that dialog shown so far
    scriptOwed,           \* an advance click the dialog has not reacted to yet
    seen,                 \* what the calls of the current step looked at
    \* ---- index.js runBot / bot.run() / dashboard
    botRunning,           \* the dashboard's botRunning flag
    botInstance,          \* TRUE when the dashboard holds a bot instance
    runNonStop,           \* config.bot.runNonStop
    flows,                \* the runBot() invocations of the process
    \* ---- stateManager.js and applyToJob of one bot instance
    appliedJobs,          \* stateManager.appliedJobs: the job ids of .jobs, and .count
    dailyStats,           \* stateManager.dailyStats
    dailyLimit,           \* config.bot.dailyLimit
    sessionStats,         \* the bot instance's sessionStats
    applyPc,              \* where run() / applyToJob stand
    job,                  \* the job of the applyToJob in progress
    applyLast,            \* the last applyToJob that ended, and how
    jobsSeen,             \* job cards the loop of run() has visited
    submitted,            \* per job id, how often handleEasyApplyModal returned true for it
    \* ---- aiService.js getPresetAnswer on its own
    presetLast,           \* the last question put to getPresetAnswer and what it returned
    \* ---- the calendar of the process
    today,                \* new Date().toISOString().split('T')[0]
    ledger,               \* per date, the records the state manager was asked to make on it
    \* ---- schedulerService.js
    now,                  \* new Date(), in ticks since the midnight the process started after
    settings,             \* settingsManager's settings: [autoApplyEnabled]
    scheduler,            \* the module's schedulerTimeout, scheduledTime, lastScheduledDate
    timers,               \* the pending timers of setTimeout: [id, at]
    triggered,            \* the timer callbacks awaiting startBotCallback(), and the last trigger
    \* ---- LinkedInBot.js run(): its loops over the search terms and pages
    runLoop               \* where the loops stand: the locals page, termApplications, ...

aiVars == <<activeProvider, geminiAvailable, openrouterAvailable, geminiModel,
            openrouterClient, aiKeys, aiLast, rateLimited>>

fillVars == <<config, fillPc, fillLeft, fillCur, fillLast>>

drvVars == <<dom, pc, step, result, exit, cands, clicks, clicked,
             scriptN, scriptShown, scriptOwed, seen>>

runVars == <<botRunning, botInstance, runNonStop, flows>>

clockVars == <<today, ledger>>

schedVars == <<now, settings, scheduler, timers, triggered>>

svcVars == <<clockVars, schedVars, runLoop>>

stateVars == <<dailyStats, dailyLimit, svcVars>>

applyVars == <<appliedJobs, sessionStats, applyPc, job, applyLast, jobsSeen, submitted>>

vars == <<aiVars, fillVars, drvVars, runVars, stateVars, applyVars, presetLast>>

\* What each part of the bot leaves alone
notAI == <<fillVars, drvVars, runVars, stateVars, applyVars, presetLast>>
notFill == <<aiKeys, aiLast, rateLimited, drvVars, runVars, stateVars, applyVars, presetLast>>

-----------------------------------------------------------------------------
(* JavaScript strings *)

\* String.prototype.toLowerCase, per character
LowerChar(c) ==
    CASE c = "A" -> "a" [] c = "B" -> "b" [] c = "C" -> "c" [] c = "D" -> "d"
      [] c = "E" -> "e" [] c = "F" -> "f" [] c = "G" -> "g" [] c = "H" -> "h"
      [] c = "I" -> "i" [] c = "J" -> "j" [] c = "K" -> "k" [] c = "L" -> "l"
      [] c = "M" -> "m" [] c = "N" -> "n" [] c = "O" -> "o" [] c = "P" -> "p"
      [] c = "Q" -> "q" [] c = "R" -> "r" [] c = "S" -> "s" [] c = "T" -> "t"
      [] c = "U" -> "u" [] c = "V" -> "v" [] c = "W" -> "w" [] c = "X" -> "x"
      [] c = "Y" -> "y" [] c = "Z" -> "z" [] OTHER -> c

RECURSIVE toLowerCase(_)
toLowerCase(t) ==
    IF Len(t) <= 1 THEN LowerChar(t)
    ELSE toLowerCase(SubSeq(t, 1, Len(t) \div 2))
            \o toLowerCase(SubSeq(t, Len(t) \div 2 + 1, Len(t)))

\* String.prototype.includes
includes(t, sub) ==
    \E i \in 0..(Len(t) - Len(sub)) : SubSeq(t, i + 1, i + Len(sub)) = sub

\* String.prototype.trim (the texts of the model hold no other white space than " ")
trim(t) ==
    LET idx == {i \in 1..Len(t) : SubSeq(t, i, i) # " "}
        lo  == CHOOSE i \in idx : \A j \in idx : i <= j
        hi  == CHOOSE i \in idx : \A j \in idx : i >= j
    IN  IF idx = {} THEN "" ELSE SubSeq(t, lo, hi)

\* JavaScript null, where a string is expected
Null == "<null>"

\* JavaScript truthiness of a string-or-null
Truthy(v) == v # Null /\ v # ""

-----------------------------------------------------------------------------
(* aiService.js: provider state and routing *)

AIState ==
    [activeProvider |-> activeProvider, geminiAvailable |-> geminiAvailable,
     openrouterAvailable |-> openrouterAvailable, geminiModel |-> geminiModel,
     openrouterClient |-> openrouterClient]

\* What one provider request can do: answer with a text, fail with a
\* rate-limit/quota error ("429" / "quota" in the message), fail otherwise.
Replies == {"42", " True ", "true.", "false", "Yes", ""}

Outcomes ==
    {[kind |-> "ok", text |-> t] : t \in Replies}
        \cup {[kind |-> "ratelimit", text |-> ""], [kind |-> "error", text |-> ""]}

\* What the provider requests of one callAI do, in order: a second request is
\* made only after the first has failed.
OutcomeRuns ==
    {<<o>> : o \in {x \in Outcomes : x.kind = "ok"}}
        \cup {<<o1, o2>> : o1 \in {x \in Outcomes : x.kind # "ok"}, o2 \in Outcomes}

\* switchToBackup(): [ok, st]
switchToBackup(st) ==
    IF st.activeProvider = "gemini" /\ st.openrouterAvailable
    THEN [ok |-> TRUE, st |-> [st EXCEPT !.activeProvider = "openrouter"]]
    ELSE IF st.activeProvider = "openrouter" /\ st.geminiAvailable
    THEN [ok |-> TRUE, st |-> [st EXCEPT !.activeProvider = "gemini"]]
    ELSE [ok |-> FALSE, st |-> st]

\* callGemini(prompt): [threw, value, st, invoked]
callGemini(st, out) ==
    IF ~st.geminiModel
    THEN [threw |-> FALSE, value |-> Null, st |-> st, invoked |-> <<>>]
    ELSE IF out.kind = "ok"
    THEN [threw |-> FALSE, value |-> trim(out.text), st |-> st,
          invoked |-> <<"gemini">>]
    ELSE IF out.kind = "ratelimit"
    THEN [threw |-> TRUE, value |-> Null,
          st |-> switchToBackup([st EXCEPT !.geminiAvailable = FALSE]).st,
          invoked |-> <<"gemini">>]
    ELSE [threw |-> TRUE, value |-> Null, st |-> st, invoked |-> <<"gemini">>]

\* callOpenRouter(prompt): [threw, value, st, invoked]
callOpenRouter(st, out) ==
    IF ~st.openrouterClient
    THEN [threw |-> FALSE, value |-> Null, st |-> st, invoked |-> <<>>]
    ELSE IF out.kind = "ok"
    THEN [threw |-> FALSE, value |-> trim(out.text), st |-> st,
          invoked |-> <<"openrouter">>]
    ELSE [threw |-> TRUE, value |-> Null, st |-> st, invoked |-> <<"openrouter">>]

\* callAI with a retry that does not switch: the provider that failed is
\* asked again
callAI_retrySame(st, retryCount, outs) ==
    LET ask(s, k) == IF st.activeProvider = "gemini" THEN callGemini(s, outs[k])
                     ELSE callOpenRouter(s, outs[k])
        second(r, again) ==
            [threw |-> FALSE, value |-> IF again.threw THEN Null ELSE again.value,
             st |-> again.st, invoked |-> r.invoked \o again.invoked]
        first(r) ==
            IF ~r.threw
            THEN [threw |-> FALSE, value |-> r.value, st |-> r.st, invoked |-> r.invoked]
            ELSE second(r, ask(r.st, 2))
    IN  IF st.activeProvider = "none"
        THEN [threw |-> FALSE, value |-> Null, st |-> st, invoked |-> <<>>]
        ELSE first(ask(st, 1))

\* callAI without its try / catch: the provider's exception reaches the caller
callAI_rethrow(st, retryCount, outs) ==
    IF st.activeProvider = "none"
    THEN [threw |-> FALSE, value |-> Null, st |-> st, invoked |-> <<>>]
    ELSE IF st.activeProvider = "gemini"
    THEN callGemini(st, outs[retryCount + 1])
    ELSE callOpenRouter(st, outs[retryCount + 1])

\* callAI(prompt, retryCount): [threw, value, st, invoked]; outs[k] is what
\* the k-th provider request of this call does.  The retry is awaited inside
\* the catch block: what it throws, the call throws.
RECURSIVE callAI(_, _, _)
callAI(st, retryCount, outs) ==
    IF st.activeProvider = "none"
    THEN [threw |-> FALSE, value |-> Null, st |-> st, invoked |-> <<>>]
    ELSE LET retried(r, again) ==
                 [threw |-> again.threw, value |-> again.value, st |-> again.st,
                  invoked |-> r.invoked \o again.invoked]
             caught(r, sw) ==
                 IF retryCount = 0 /\ sw.ok
                 THEN retried(r, callAI(sw.st, retryCount + 1, outs))
                 ELSE [threw |-> FALSE, value |-> Null, st |-> r.st,
                       invoked |-> r.invoked]
             requested(r) ==
                 IF ~r.threw
                 THEN [threw |-> FALSE, value |-> r.value, st |-> r.st,
                       invoked |-> r.invoked]
                 ELSE caught(r, switchToBackup(r.st))
         IN  requested(IF st.activeProvider = "gemini"
                       THEN callGemini(st, outs[retryCount + 1])
                       ELSE callOpenRouter(st, outs[retryCount + 1]))

\* answerQuestion(question, options, jobContext): [threw, value, st, invoked]
answerQuestion(st, outs) ==
    IF st.activeProvider = "none"
    THEN [threw |-> FALSE, value |-> Null, st |-> st, invoked |-> <<>>]
    ELSE callAI(st, 0, outs)

\* answerCheckboxQuestion with the fallback of a failed resolution turned to 'true'
answerCheckboxQuestion_defaultTrue(st, outs) ==
    LET answered(r, low) ==
            [threw |-> r.threw, value |-> IF Truthy(low) THEN low ELSE "true",
             raw |-> r.value, st |-> r.st, invoked |-> r.invoked]
        called(r) ==
            answered(r, IF r.value = Null THEN Null ELSE trim(toLowerCase(r.value)))
    IN  called(callAI(st, 0, outs))

\* answerCheckboxQuestion(checkboxLabel, jobContext):
\* [threw, value, raw, st, invoked]
answerCheckboxQuestion(st, outs) ==
    LET answered(r, low) ==
            [threw |-> r.threw, value |-> IF Truthy(low) THEN low ELSE "false",
             raw |-> r.value, st |-> r.st, invoked |-> r.invoked]
        called(r) ==
            answered(r, IF r.value = Null THEN Null ELSE trim(toLowerCase(r.value)))
    IN  called(callAI(st, 0, outs))

\* initializeAI(): [st, invoked]; gOut / oOut are what the two connection
\* tests do. The module variables are not reset: a flag keeps its value
\* unless a test succeeds.
initializeAI(st, keys, gOut, oOut) ==
    LET g == IF ~keys.gemini THEN st
             ELSE IF gOut.kind = "ok" /\ gOut.text # ""
             THEN [st EXCEPT !.geminiModel = TRUE, !.geminiAvailable = TRUE,
                             !.activeProvider = "gemini"]
             ELSE [st EXCEPT !.geminiModel = TRUE]
        o == IF ~keys.openrouter THEN g
             ELSE IF oOut.kind = "ok" /\ oOut.text # ""
             THEN [g EXCEPT !.openrouterClient = TRUE, !.openrouterAvailable = TRUE,
                            !.activeProvider =
                                IF g.activeProvider = "none" THEN "openrouter"
                                ELSE g.activeProvider]
             ELSE [g EXCEPT !.openrouterClient = TRUE]
    IN  [st |-> o,
         invoked |-> (IF keys.gemini THEN <<"gemini">> ELSE <<>>)
                        \o (IF keys.openrouter THEN <<"openrouter">> ELSE <<>>)]

\* getAIStatus()
getAIStatus(st) ==
    [gemini |-> [available |-> st.geminiAvailable, active |-> st.activeProvider = "gemini"],
     openrouter |-> [available |-> st.openrouterAvailable,
                     active |-> st.activeProvider = "openrouter"],
     activeProvider |-> st.activeProvider]

Range(f) == {f[i] : i \in DOMAIN f}

\* The primary was asked and failed with a rate-limit error in this call,
\* while the backup was available.
PrimaryRateLimited(pre, outs, invoked) ==
    /\ pre.openrouterAvailable
    /\ \E k \in DOMAIN invoked : invoked[k] = "gemini" /\ outs[k].kind = "ratelimit"

SetAIState(st) ==
    /\ activeProvider' = st.activeProvider
    /\ geminiAvailable' = st.geminiAvailable
    /\ openrouterAvailable' = st.openrouterAvailable
    /\ geminiModel' = st.geminiModel
    /\ openrouterClient' = st.openrouterClient

NoCall == [op |-> "none", pre |-> [activeProvider |-> "none", geminiAvailable |-> FALSE,
                                   openrouterAvailable |-> FALSE, geminiModel |-> FALSE,
                                   openrouterClient |-> FALSE],
           outs |-> <<>>, value |-> Null, invoked |-> <<>>, rlBefore |-> FALSE,
           threw |-> FALSE]

-----------------------------------------------------------------------------
(* aiService.js: the preset answers; config/index.js: the operator's data *)

\* Number.prototype.toString of a non-negative integer
Digit(d) ==
    CASE d = 0 -> "0" [] d = 1 -> "1" [] d = 2 -> "2" [] d = 3 -> "3" [] d = 4 -> "4"
      [] d = 5 -> "5" [] d = 6 -> "6" [] d = 7 -> "7" [] d = 8 -> "8" [] d = 9 -> "9"

RECURSIVE NumToStr(_)
NumToStr(n) == IF n < 10 THEN Digit(n) ELSE NumToStr(n \div 10) \o Digit(n % 10)

\* Math.round(desiredSalary * 1.25) for the amounts the configurations hold
RoundQuarterUp(n) == (n * 125 + 50) \div 100

\* config with no optional environment variable set (the defaults of config/index.js)
ConfigDefaults ==
    [email |-> "me@x.io", firstName |-> "", middleName |-> "", lastName |-> "",
     phoneNumber |-> "", currentCity |-> "", street |-> "", state |-> "", zipcode |-> "",
     country |-> "United States", ethnicity |-> "", gender |-> "",
     disabilityStatus |-> "Decline", veteranStatus |-> "Decline",
     yearsOfExperience |-> "3", requireVisa |-> "Yes", website |-> "", linkedInUrl |-> "",
     citizenshipStatus |-> "", desiredSalary |-> 0, maxSalary |-> 0, currentSalary |-> 0,
     noticePeriod |-> 0, recentEmployer |-> "", hasMasters |-> FALSE]

\* config of an operator who filled in the profile (MIDDLE_NAME left unset)
ConfigFilled ==
    [email |-> "me@x.io", firstName |-> "Ada", middleName |-> "", lastName |-> "Byron",
     phoneNumber |-> "555", currentCity |-> "Pecs", street |-> "Fo ut 1", state |-> "Baranya",
     zipcode |-> "7621", country |-> "Hungary", ethnicity |-> "Decline", gender |-> "Female",
     disabilityStatus |-> "No", veteranStatus |-> "No",
     yearsOfExperience |-> "5", requireVisa |-> "No", website |-> "x.io", linkedInUrl |-> "x.io/in",
     citizenshipStatus |-> "Citizen", desiredSalary |-> 100, maxSalary |-> 0,
     currentSalary |-> 30, noticePeriod |-> 30, recentEmployer |-> "Acme", hasMasters |-> TRUE]

Configs == {ConfigDefaults, ConfigFilled}

\* getPresetAnswer(question): the value of the first matching rule, or null
getPresetAnswer(cfg, question) ==
    LET firstMatch(q) ==
            LET has(w) == includes(q, w)
                maxSalary == IF cfg.maxSalary # 0 THEN cfg.maxSalary
                             ELSE RoundQuarterUp(cfg.desiredSalary)
            IN  IF has("first name") THEN cfg.firstName
                ELSE IF has("last name") THEN cfg.lastName
                ELSE IF has("middle name") THEN cfg.middleName
                ELSE IF has("full name")
                    THEN cfg.firstName \o " " \o cfg.lastName
                ELSE IF has("phone") \/ has("mobile") THEN cfg.phoneNumber
                ELSE IF has("email")
                    THEN IF has("recommend") \/ has("referr") \/ has("employee") \/ has("refer")
                         THEN ""
                         ELSE cfg.email
                ELSE IF has("recommend") \/ has("referr") \/ has("referred by") THEN ""
                ELSE IF has("city") THEN cfg.currentCity
                ELSE IF has("state") \/ has("province") THEN cfg.state
                ELSE IF has("zip") \/ has("postal") THEN cfg.zipcode
                ELSE IF has("country") THEN cfg.country
                ELSE IF has("street") \/ has("address") THEN cfg.street
                ELSE IF has("years of experience") \/ has("how many years")
                    THEN cfg.yearsOfExperience
                ELSE IF (has("visa") \/ has("sponsorship") \/ has("authorized to work"))
                        /\ (has("require") \/ has("need"))
                    THEN cfg.requireVisa
                ELSE IF has("salary") \/ has("compensation") \/ has("pay") \/ has("bérigény")
                    THEN IF has("max") \/ has("maximum") \/ has("upper") \/ has("sávos")
                         THEN NumToStr(maxSalary)
                         ELSE IF has("expected") \/ has("desired") \/ has("requirement")
                                 \/ has("min") \/ has("base")
                         THEN NumToStr(cfg.desiredSalary)
                         ELSE IF has("current") THEN NumToStr(cfg.currentSalary)
                         ELSE NumToStr(cfg.desiredSalary)
                ELSE IF has("notice") \/ has("start date") \/ has("when can you")
                    THEN IF cfg.noticePeriod = 0 THEN "Immediately"
                         ELSE NumToStr(cfg.noticePeriod) \o " days"
                ELSE IF has("linkedin") THEN cfg.linkedInUrl
                ELSE IF has("website") \/ has("portfolio") \/ has("github") THEN cfg.website
                ELSE IF has("disability") \/ has("disabled") THEN cfg.disabilityStatus
                ELSE IF has("veteran") THEN cfg.veteranStatus
                ELSE IF has("gender") THEN cfg.gender
                ELSE IF has("ethnicity") \/ has("race") THEN cfg.ethnicity
                ELSE IF has("citizen") \/ has("authorization") \/ has("work status")
                    THEN cfg.citizenshipStatus
                ELSE IF has("highest") /\ (has("degree") \/ has("education"))
                    THEN IF cfg.hasMasters THEN "Master's Degree"
                         ELSE "Bachelor's Degree"
                ELSE IF (has("are you") \/ has("do you") \/ has("have you") \/ has("can you"))
                        /\ (has("relocate") \/ has("travel"))
                    THEN "Yes"
                ELSE IF (has("are you") \/ has("do you") \/ has("have you") \/ has("can you"))
                        /\ has("currently employed")
                    THEN IF cfg.recentEmployer # "" THEN "Yes" ELSE "No"
                ELSE IF (has("are you") \/ has("do you") \/ has("have you") \/ has("can you"))
                        /\ has("legally authorized")
                    THEN IF cfg.requireVisa = "No" THEN "Yes" ELSE "No"
                ELSE Null
    IN  firstMatch(toLowerCase(question))

\* No question has been put to getPresetAnswer
NoPreset == [question |-> Null, value |-> Null]

\* The questions put to getPresetAnswer on its own: a form label made of a
\* lead-in and a topic
Stems ==
    {"What is your ", "How many years of experience do you have in ",
     "How many years have you held your ", "Do you require ", "Are you ",
     "Expected ", "Referrer's ", "Maximum "}

Topics ==
    {"first name?", "real estate?", "visa sponsorship?", "visa status?", "salary?",
     "email?", "email or phone number?", "favourite colour?", "currently employed?", "highest degree?",
     "willing to relocate?"}

Questions == {stem \o topic : stem \in Stems, topic \in Topics}

-----------------------------------------------------------------------------
(* LinkedInBot.js: the field fillers.  A form group is read from the live   *)
(* document when the loop reaches it; a field's value is a text, a select's *)
(* selection the position of the selected option (1 is the first option).  *)

\* The labels of the form groups the dialogs of the model show
GroupLabels ==
    {"First name", "Middle name", "Referrer email", "Why us?", "City", "Cover letter",
     "Upload resume", "Country", "Commute?", "Are you willing to relocate?",
     "Are you currently employed?"}

\* getPresetAnswer(label) for each configuration and label, computed once
PresetAnswers ==
    [cfg \in Configs |-> [label \in GroupLabels |-> getPresetAnswer(cfg, label)]]

\* getPresetAnswer(label) || await answerQuestion(label, options, jobContext)
\* [value, preset, st, invoked]
ResolveAnswer(cfg, label, st, outs) ==
    LET fromAI(p, r) ==
            [value |-> r.value, preset |-> p, st |-> r.st, invoked |-> r.invoked]
        orElse(p) ==
            IF Truthy(p)
            THEN [value |-> p, preset |-> p, st |-> st, invoked |-> <<>>]
            ELSE fromAI(p, answerQuestion(st, outs))
    IN  orElse(PresetAnswers[cfg][label])

\* What a handler reports: the group afterwards, the provider state, the
\* provider requests made, the preset / answer it resolved ("unasked" when the
\* handler returned before resolving), whether it wrote to the field.
Unasked == "<unasked>"

Skipped(g, st) ==
    [group |-> g, st |-> st, invoked |-> <<>>, preset |-> Unasked, answer |-> Unasked,
     wrote |-> FALSE]

Handled(g, res, wrote) ==
    [group |-> g, st |-> res.st, invoked |-> res.invoked, preset |-> res.preset,
     answer |-> res.value, wrote |-> wrote]

\* handleTextInput(input, label); picked: the autocomplete suggestion list
\* rendered and its first entry was clicked
handleTextInput(cfg, g, st, outs, picked) ==
    LET isLocation(l) ==
            includes(l, "city") \/ includes(l, "location")
                \/ includes(l, "address") \/ includes(l, "where")
        isLocationField == isLocation(toLowerCase(g.label))
        resolved(res) ==
            IF ~Truthy(res.value) THEN Handled(g, res, FALSE)
            ELSE Handled([g EXCEPT !.value = res.value,
                                   !.suggestion = isLocationField /\ picked],
                         res, TRUE)
    IN  IF g.disabled THEN Skipped(g, st)
        ELSE IF g.value # "" THEN Skipped(g, st)
        ELSE resolved(ResolveAnswer(cfg, g.label, st, outs))

\* handleTextarea(textarea, label)
handleTextarea(cfg, g, st, outs) ==
    LET resolved(res) ==
            IF Truthy(res.value)
            THEN Handled([g EXCEPT !.value = res.value], res, TRUE)
            ELSE Handled(g, res, FALSE)
    IN  IF g.value # "" THEN Skipped(g, st)
        ELSE resolved(ResolveAnswer(cfg, g.label, st, outs))

\* Array.prototype.find, a for...of loop that returns at its first hit,
\* querySelector: the first of the positions that qualify, 0 when none does
FirstOf(S) == IF S = {} THEN 0 ELSE CHOOSE i \in S : \A j \in S : i <= j

\* select.select(value): the first option holding that value becomes selected
SelectValue(g, value) ==
    [g EXCEPT !.selected = FirstOf({i \in 1..Len(g.options) : g.options[i].value = value})]

\* The text of the selected option, '' when there is none
CurrentSelection(g) ==
    IF g.selected \in 1..Len(g.options) THEN g.options[g.selected].text ELSE ""

\* handleDropdown(select, label)
handleDropdown(cfg, g, st, outs) ==
    LET matches(text, answer) ==
            text = answer \/ includes(text, answer) \/ includes(answer, text)
        matchOption(answer) ==
            FirstOf({i \in 1..Len(g.options) : matches(toLowerCase(g.options[i].text), answer)})
        firstRealOption ==
            FirstOf({i \in 1..Len(g.options) :
                        /\ g.options[i].value # ""
                        /\ ~includes(toLowerCase(g.options[i].text), "select")})
        chosen(res, m, f) ==
            IF m # 0 /\ g.options[m].value # ""
            THEN Handled(SelectValue(g, g.options[m].value), res, TRUE)
            ELSE IF f # 0
            THEN Handled(SelectValue(g, g.options[f].value), res, TRUE)
            ELSE Handled(g, res, FALSE)
        resolved(res) ==
            IF ~Truthy(res.value) THEN Handled(g, res, FALSE)
            ELSE chosen(res, matchOption(toLowerCase(res.value)), firstRealOption)
        current(currentSelection) ==
            IF /\ currentSelection # ""
               /\ ~includes(toLowerCase(currentSelection), "select")
               /\ Len(g.options) > 1
            THEN Skipped(g, st)
            ELSE IF Len(g.options) <= 1 THEN Skipped(g, st)
            ELSE resolved(ResolveAnswer(cfg, g.label, st, outs))
    IN  current(CurrentSelection(g))

\* handleRadioButtons without its "Default: select first option"
handleRadioButtons_noDefault(cfg, g, st, outs) ==
    LET radioLabel(i) == IF i <= Len(g.radioLabels)
                         THEN toLowerCase(g.radioLabels[i]) ELSE ""
        matches(l, answer) ==
            \/ includes(l, answer)
            \/ includes(answer, l)
            \/ (answer = "yes" /\ includes(l, "yes"))
            \/ (answer = "no" /\ includes(l, "no"))
        hits(answer) == {i \in 1..Len(g.radios) : matches(radioLabel(i), answer)}
        first(h) == CHOOSE i \in h : \A j \in h : i <= j
        click(i) == [g EXCEPT !.radios = [k \in 1..Len(g.radios) |-> k = i]]
        chosen(res, h) ==
            IF Truthy(res.value) /\ h # {} THEN Handled(click(first(h)), res, TRUE)
            ELSE Handled(g, res, FALSE)
        resolved(res) == chosen(res, hits(toLowerCase(res.value)))
    IN  IF \E i \in 1..Len(g.radios) : g.radios[i] THEN Skipped(g, st)
        ELSE resolved(ResolveAnswer(cfg, g.label, st, outs))

\* handleRadioButtons(container, radios, label): g.radios[i] is whether radio
\* i is checked, g.radioLabels the texts of the container's label elements
handleRadioButtons(cfg, g, st, outs) ==
    LET radioLabel(i) == IF i <= Len(g.radioLabels)
                         THEN toLowerCase(g.radioLabels[i]) ELSE ""
        matches(l, answer) ==
            \/ includes(l, answer)
            \/ includes(answer, l)
            \/ (answer = "yes" /\ includes(l, "yes"))
            \/ (answer = "no" /\ includes(l, "no"))
        hits(answer) == {i \in 1..Len(g.radios) : matches(radioLabel(i), answer)}
        first(h) == CHOOSE i \in h : \A j \in h : i <= j
        click(i) == [g EXCEPT !.radios = [k \in 1..Len(g.radios) |-> k = i]]
        chosen(res, h) ==
            IF Truthy(res.value) /\ h # {} THEN Handled(click(first(h)), res, TRUE)
            ELSE IF Len(g.radios) > 0 THEN Handled(click(1), res, TRUE)
            ELSE Handled(g, res, FALSE)
        resolved(res) == chosen(res, hits(toLowerCase(res.value)))
    IN  IF \E i \in 1..Len(g.radios) : g.radios[i] THEN Skipped(g, st)
        ELSE resolved(ResolveAnswer(cfg, g.label, st, outs))

\* The body of fillFormFields' loop for one form group: the kind is decided
\* by the first control found (file, select, radio container, text, textarea)
FillGroup(cfg, g, st, outs, picked) ==
    IF g.kind = "file" THEN Skipped(g, st)
    ELSE IF g.kind = "select" THEN handleDropdown(cfg, g, st, outs)
    ELSE IF g.kind = "radio" /\ Len(g.radios) > 0 THEN handleRadioButtons(cfg, g, st, outs)
    ELSE IF g.kind = "text" THEN handleTextInput(cfg, g, st, outs, picked)
    ELSE IF g.kind = "textarea" THEN handleTextarea(cfg, g, st, outs)
    ELSE Skipped(g, st)

\* The body of handleCheckboxes' loop for one checkbox; a click on the
\* checkbox (or on its label) toggles it.
\* [box, st, invoked, decision, raw, clicked]
handleCheckbox(cb, st, outs) ==
    LET toggled == [cb EXCEPT !.checked = ~cb.checked]
        untouched == [box |-> cb, st |-> st, invoked |-> <<>>, decision |-> Unasked,
                      raw |-> Unasked, clicked |-> FALSE]
        decided(ai, shouldCheck) ==
            [box |-> IF shouldCheck THEN toggled ELSE cb, st |-> ai.st,
             invoked |-> ai.invoked, decision |-> ai.value, raw |-> ai.raw,
             clicked |-> shouldCheck]
        asked(aiDecision) ==
            decided(aiDecision, trim(toLowerCase(aiDecision.value)) = "true")
        labelled(labelLower) ==
            IF includes(labelLower, "follow") /\ ~includes(labelLower, "up")
            THEN IF cb.checked THEN [untouched EXCEPT !.box = toggled, !.clicked = TRUE]
                 ELSE untouched
            ELSE IF ~cb.checked
            THEN asked(answerCheckboxQuestion(st, outs))
            ELSE untouched
    IN  labelled(toLowerCase(cb.label))

\* The form groups and checkboxes a dialog step can show
TextGroup(kind, label, value, disabled) ==
    [kind |-> kind, label |-> label, value |-> value, disabled |-> disabled,
     suggestion |-> FALSE, options |-> <<>>, selected |-> 0, radios |-> <<>>,
     radioLabels |-> <<>>]

SelectGroup(label, options, selected) ==
    [kind |-> "select", label |-> label, value |-> "", disabled |-> FALSE,
     suggestion |-> FALSE, options |-> options, selected |-> selected, radios |-> <<>>,
     radioLabels |-> <<>>]

RadioGroup(label, radioLabels, radios) ==
    [kind |-> "radio", label |-> label, value |-> "", disabled |-> FALSE,
     suggestion |-> FALSE, options |-> <<>>, selected |-> 0, radios |-> radios,
     radioLabels |-> radioLabels]

Opt(value, text) == [value |-> value, text |-> text]

YesNoOptions == <<Opt("", "Select an option"), Opt("y", "Yes"), Opt("n", "No")>>

HowOptions ==
    <<Opt("", "Select an option"), Opt("s", "Self-selected route"), Opt("n", "No")>>

CountryOptions ==
    <<Opt("", "Select an option"), Opt("hu", "Hungary"), Opt("us", "United States")>>

\* a country list in the order of the ISO codes (UM before US)
IsoCountryOptions ==
    <<Opt("", "Select an option"), Opt("um", "United States Minor Outlying Islands"),
      Opt("us", "United States")>>

Groups ==
    {TextGroup("text", "First name", "", FALSE),
     TextGroup("text", "Middle name", "", FALSE),
     TextGroup("text", "Referrer email", "", FALSE),
     TextGroup("text", "Why us?", "", FALSE),
     TextGroup("text", "Why us?", "Because", FALSE),
     TextGroup("text", "Why us?", "", TRUE),
     TextGroup("text", "City", "", FALSE),
     TextGroup("textarea", "Cover letter", "", FALSE),
     TextGroup("textarea", "Middle name", "", FALSE),
     TextGroup("textarea", "Cover letter", "Because", FALSE),
     TextGroup("file", "Upload resume", "", FALSE),
     SelectGroup("Country", CountryOptions, 1),
     SelectGroup("Country", IsoCountryOptions, 1),
     SelectGroup("Commute?", YesNoOptions, 1),
     SelectGroup("Commute?", YesNoOptions, 3),
     SelectGroup("Commute?", HowOptions, 2),
     SelectGroup("Middle name", YesNoOptions, 1),
     SelectGroup("Commute?", <<Opt("", "Select an option")>>, 1),
     RadioGroup("Are you willing to relocate?", <<"Yes", "No">>, <<FALSE, FALSE>>),
     RadioGroup("Are you currently employed?", <<"Yes", "No">>, <<FALSE, FALSE>>),
     RadioGroup("Commute?", <<"Yes", "No">>, <<FALSE, FALSE>>),
     RadioGroup("Commute?", <<"Yes", "No">>, <<FALSE, TRUE>>),
     RadioGroup("Middle name", <<"Yes", "No">>, <<FALSE, FALSE>>)}

CheckboxLabels ==
    {"Follow Acme", "Follow Acme to stay up to date with their page.",
     "I will follow up by email", "I agree to the terms"}

Checkboxes == [kind : {"checkbox"}, label : CheckboxLabels, checked : BOOLEAN]

\* The number of form groups / checkboxes one query of the dialog returns
MaxGroups == 2

NoItem == [kind |-> "none"]

NoFill == [what |-> "none"]

FreshAI == [activeProvider |-> "none", geminiAvailable |-> FALSE,
            openrouterAvailable |-> FALSE, geminiModel |-> FALSE,
            openrouterClient |-> FALSE]

-----------------------------------------------------------------------------
(* LinkedInBot.js: the document the dialog driver looks at.  The document   *)
(* holds the elements matched by                                            *)
(*   '[role="dialog"], .artdeco-modal, .jobs-easy-apply-modal'              *)
(* in document order, each with its class name, its own text and its        *)
(* buttons, and the text of the page around them.                           *)

Btn(text, ariaLabel, disabled) ==
    [text |-> text, ariaLabel |-> ariaLabel, disabled |-> disabled]

\* A container has role="dialog" (the overlays, and LinkedIn's artdeco
\* modals); listBubble: it has a descendant of class msg-overlay-list-bubble
Container(className, text, buttons) ==
    [className |-> className, text |-> text, buttons |-> buttons,
     role |-> "dialog", listBubble |-> FALSE]

RECURSIVE JoinTexts(_)
JoinTexts(buttons) ==
    IF buttons = <<>> THEN "" ELSE Head(buttons).text \o JoinTexts(Tail(buttons))

\* dialog.textContent: the text of the element and of everything inside it
textContent(dialog) == dialog.text \o JoinTexts(dialog.buttons)

RECURSIVE JoinDialogs(_)
JoinDialogs(dialogs) ==
    IF dialogs = <<>> THEN ""
    ELSE " " \o textContent(Head(dialogs)) \o JoinDialogs(Tail(dialogs))

\* document.body.innerText
innerText(doc) == doc.body \o JoinDialogs(doc.dialogs)

\* Array.from(buttons).map(b => b.textContent?.trim()?.toLowerCase() || '')
buttonTexts(dialog) ==
    [i \in 1..Len(dialog.buttons) |-> toLowerCase(trim(dialog.buttons[i].text))]

\* buttonTexts.some(t => t.includes(w1) || t.includes(w2) || ...)
SomeIncludes(texts, words) ==
    \E i \in 1..Len(texts) : \E w \in words : includes(texts[i], w)

\* "Exclude messaging widget"
isMessagingWidget(text) ==
    includes(text, "Open Emoji Keyboard") \/ includes(text, "Compose message")

\* The button vocabularies of the detector, of the tryClick* scans and of
\* clickModalButtonByIndex
DetectVocabulary == {"next", "continue", "submit application", "review"}
ScanVocabulary == {"next", "continue", "submit", "review"}
ClickVocabulary == {"next", "continue", "submit", "review", "done"}

\* Method 3 of the detector
hasTextIndicator(lowerText) ==
    \/ includes(lowerText, "job application progress")
    \/ includes(lowerText, "continue to next step")
    \/ includes(lowerText, "submit application")
    \/ includes(lowerText, "review your application")
    \/ includes(lowerText, "contact info")
    \/ (includes(lowerText, "apply to") /\ includes(lowerText, "email address"))

\* The detector's verdict on one dialog: the method that matches, or "none".
\* (classList.contains('jobs-easy-apply-modal') implies
\* className.includes('easy-apply').)
modalMethod(dialog) ==
    LET decide(text, texts) ==
            IF isMessagingWidget(text) THEN "none"
            ELSE IF includes(dialog.className, "easy-apply") THEN "class-match"
            ELSE IF SomeIncludes(texts, DetectVocabulary) /\ SomeIncludes(texts, {"dismiss"})
            THEN "button-match"
            ELSE IF hasTextIndicator(toLowerCase(text)) THEN "text-match"
            ELSE "none"
    IN  decide(textContent(dialog), buttonTexts(dialog))

\* handleEasyApplyModal, "Find the CORRECT Easy Apply modal": [found, method]
findModal(doc) ==
    LET at(k) == [found |-> k # 0,
                  method |-> IF k = 0 THEN "none" ELSE modalMethod(doc.dialogs[k])]
    IN  at(FirstOf({k \in 1..Len(doc.dialogs) : modalMethod(doc.dialogs[k]) # "none"}))

\* The position of the dialog the detector returns at, 0 when it finds none
modalIndex(doc) ==
    FirstOf({k \in 1..Len(doc.dialogs) : modalMethod(doc.dialogs[k]) # "none"})

\* element.matches('.' + name), on the class names of the element
hasClass(dialog, name) == includes(" " \o dialog.className \o " ", " " \o name \o " ")

\* fillFormFields / handleCheckboxes, page.$(modalSelector) with modalSelector
\* '.jobs-easy-apply-modal, [role="dialog"]:not(:has(.msg-overlay-list-bubble))':
\* the position of the first element of the document that matches, 0: null
formModal(doc) ==
    FirstOf({k \in 1..Len(doc.dialogs) :
                \/ hasClass(doc.dialogs[k], "jobs-easy-apply-modal")
                \/ doc.dialogs[k].role = "dialog" /\ ~doc.dialogs[k].listBubble})

\* The test tryClickSubmit / tryClickReview / tryClickNext and
\* clickModalButtonByIndex apply to a dialog
looksLikeModal(dialog, vocabulary) ==
    LET decide(text, texts) ==
            /\ ~isMessagingWidget(text)
            /\ (SomeIncludes(texts, {"dismiss"}) \/ SomeIncludes(texts, vocabulary))
    IN  decide(textContent(dialog), buttonTexts(dialog))

\* The $$eval of tryClickSubmit / tryClickReview / tryClickNext: the buttons
\* of the first dialog that looks like the modal, [] when there is none
modalButtons(doc) ==
    LET at(k) == IF k = 0 THEN <<>> ELSE doc.dialogs[k].buttons
    IN  at(FirstOf({k \in 1..Len(doc.dialogs) : looksLikeModal(doc.dialogs[k], ScanVocabulary)}))

\* The position of the dialog whose buttons the $$eval returns, 0: none
scannedIndex(doc) ==
    FirstOf({k \in 1..Len(doc.dialogs) : looksLikeModal(doc.dialogs[k], ScanVocabulary)})

\* One priority pass over the scanned buttons: of the positions that match,
\* those of enabled buttons, in order
Pass(buttons, matching) ==
    SelectSeq([i \in 1..Len(buttons) |-> i],
              LAMBDA i : i \in matching /\ ~buttons[i].disabled)

\* btnInfo.text, lower-cased
LowerTexts(buttons) == [i \in 1..Len(buttons) |-> toLowerCase(trim(buttons[i].text))]

\* The buttons tryClickSubmit tries, in the order it tries them
submitCandidates(buttons) ==
    LET passes(lower) ==
            Pass(buttons, {i \in 1..Len(buttons) : trim(buttons[i].text) = "Submit application"})
            \o Pass(buttons, {i \in 1..Len(buttons) :
                                includes(buttons[i].ariaLabel, "Submit application")})
            \o Pass(buttons, {i \in 1..Len(buttons) :
                                includes(lower[i], "submit") /\ ~includes(lower[i], "review")})
    IN  passes(LowerTexts(buttons))

\* The buttons tryClickReview tries
reviewCandidates(buttons) ==
    LET passes(lower) ==
            Pass(buttons, {i \in 1..Len(buttons) :
                                trim(buttons[i].text) = "Review your application"})
            \o Pass(buttons, {i \in 1..Len(buttons) :
                                includes(buttons[i].ariaLabel, "Review your application")})
            \o Pass(buttons, {i \in 1..Len(buttons) :
                                /\ includes(lower[i], "review")
                                /\ ~includes(lower[i], "mark")
                                /\ ~includes(lower[i], "edit")})
    IN  passes(LowerTexts(buttons))

\* The buttons tryClickNext tries
nextCandidates(buttons) ==
    LET passes(lower) ==
            Pass(buttons, {i \in 1..Len(buttons) :
                                trim(buttons[i].text) = "Continue to next step"})
            \o Pass(buttons, {i \in 1..Len(buttons) :
                                includes(buttons[i].ariaLabel, "Continue to next step")})
            \o Pass(buttons, {i \in 1..Len(buttons) :
                                /\ includes(lower[i], "next") \/ lower[i] = "continue"
                                /\ ~includes(lower[i], "back")})
    IN  passes(LowerTexts(buttons))

\* A click the bot dispatches: its purpose, the dialog (position in the
\* document, 0: no click) and the button it lands on
NoClick == [kind |-> "none", dialog |-> 0, text |-> "", inWidget |-> FALSE]

ClickOn(kind, doc, k, i) ==
    IF k = 0 THEN NoClick
    ELSE [kind |-> kind, dialog |-> k, text |-> doc.dialogs[k].buttons[i].text,
          inWidget |-> isMessagingWidget(textContent(doc.dialogs[k]))]

clickModalButtonByIndex_unguarded(doc, idx) ==
    LET hit(k) == [ok |-> k # 0, click |-> ClickOn("advance", doc, k, idx)]
    IN  hit(FirstOf({k \in 1..Len(doc.dialogs) :
                        /\ \/ SomeIncludes(buttonTexts(doc.dialogs[k]), {"dismiss"})
                           \/ SomeIncludes(buttonTexts(doc.dialogs[k]), ClickVocabulary)
                        /\ idx <= Len(doc.dialogs[k].buttons)}))

\* clickModalButtonByIndex(idx): the click lands on button idx of the first
\* dialog that looks like the modal and has that many buttons
clickModalButtonByIndex(doc, idx) ==
    LET at(k) == [ok |-> k # 0, click |-> ClickOn("advance", doc, k, idx)]
    IN  at(FirstOf({k \in 1..Len(doc.dialogs) :
                        /\ looksLikeModal(doc.dialogs[k], ClickVocabulary)
                        /\ idx <= Len(doc.dialogs[k].buttons)}))

\* document.querySelector / the first hit of nested for...of loops: hits[k]
\* is the set of the buttons of dialog k that qualify; the first button in
\* document order as [dialog, button], [0, 0] when there is none
FirstButtonOf(hits, k) == [dialog |-> k, button |-> IF k = 0 THEN 0 ELSE FirstOf(hits[k])]

FirstButton(hits) == FirstButtonOf(hits, FirstOf({k \in DOMAIN hits : hits[k] # {}}))

\* 'button[aria-label="Dismiss"]'
DismissButtons(doc) ==
    [k \in 1..Len(doc.dialogs) |->
        {i \in 1..Len(doc.dialogs[k].buttons) : doc.dialogs[k].buttons[i].ariaLabel = "Dismiss"}]

\* clickButtonBySpanText(buttonText): the click dispatched, NoClick when no
\* enabled button of a dialog carries that text
clickButtonBySpanText(doc, buttonText) ==
    LET at(p) == ClickOn("done", doc, p.dialog, p.button)
    IN  at(FirstButton(
            [k \in 1..Len(doc.dialogs) |->
                IF isMessagingWidget(textContent(doc.dialogs[k]))
                THEN {}
                ELSE {i \in 1..Len(doc.dialogs[k].buttons) :
                        /\ trim(doc.dialogs[k].buttons[i].text) = buttonText
                        /\ ~doc.dialogs[k].buttons[i].disabled}]))

\* closeModal(): safeClick on the first 'button[aria-label="Dismiss"]' of the
\* document (the confirmation of a discard, which follows it, is a reaction
\* of the page)
closeModal(doc) ==
    LET at(p) == ClickOn("dismiss", doc, p.dialog, p.button)
    IN  at(FirstButton(DismissButtons(doc)))

\* The clicks of a sequence that were dispatched
Dispatched(attempts) == SelectSeq(attempts, LAMBDA c : c.kind # "none")

successPhrases ==
    {"application sent", "application submitted", "your application was sent",
     "you applied for this job", "application was successfully sent", "successfully applied"}

\* dialogText.includes('application') &&
\*     (dialogText.includes('sent') || dialogText.includes('submitted'))
isSentContext(lowerText) ==
    /\ includes(lowerText, "application")
    /\ (includes(lowerText, "sent") \/ includes(lowerText, "submitted"))

\* checkApplicationSuccess, the page.evaluate: a success phrase in the page
\* text, or a dialog in a sent context that shows a Done button
successCheck(doc) ==
    LET phrase(pageText) == \E p \in successPhrases : includes(pageText, p)
        doneVisible(d) ==
            /\ isSentContext(toLowerCase(textContent(d)))
            /\ \E i \in 1..Len(d.buttons) : toLowerCase(trim(d.buttons[i].text)) = "done"
    IN  \/ phrase(toLowerCase(innerText(doc)))
        \/ \E k \in 1..Len(doc.dialogs) : doneVisible(doc.dialogs[k])

\* checkApplicationSuccess, "Legacy check for dismiss button in success
\* context": the dialog around the first button labelled Dismiss
dismissContext(doc) ==
    LET at(p) == p.dialog # 0 /\ isSentContext(toLowerCase(textContent(doc.dialogs[p.dialog])))
    IN  at(FirstButton(DismissButtons(doc)))

\* checkApplicationSuccess(): [success, clicked]
checkApplicationSuccess(doc) ==
    IF successCheck(doc)
    THEN [success |-> TRUE,
          clicked |-> Dispatched(<<clickButtonBySpanText(doc, "Done"), closeModal(doc)>>)]
    ELSE IF dismissContext(doc)
    THEN [success |-> TRUE, clicked |-> Dispatched(<<closeModal(doc)>>)]
    ELSE [success |-> FALSE, clicked |-> <<>>]

\* const maxSteps = 10
maxSteps == 10

withinBudget_inclusive(s) == s <= maxSteps

\* while (step < maxSteps)
withinBudget(s) == s < maxSteps

\* The dialogs the pages of the model show
DismissBtn == Btn("Dismiss", "Dismiss", FALSE)
BackBtn == Btn("Back", "Back to previous step", FALSE)
NextBtn(disabled) == Btn("Next", "Continue to next step", disabled)

ContactStep ==
    Container("jobs-easy-apply-modal", "Contact info", <<DismissBtn, NextBtn(FALSE)>>)
QuestionsStep ==
    Container("artdeco-modal", "Additional questions",
              <<DismissBtn, BackBtn, Btn("Continue to next step", "", FALSE)>>)
ConsentStep ==
    Container("jobs-easy-apply-modal", "I consent to the processing of my application",
              <<DismissBtn, BackBtn, NextBtn(FALSE)>>)
ReviewStep ==
    Container("jobs-easy-apply-modal", "Work experience",
              <<DismissBtn, BackBtn, Btn("Review", "Review your application", FALSE)>>)
SubmitStep ==
    Container("jobs-easy-apply-modal", "Review your application",
              <<DismissBtn, BackBtn, Btn("Submit application", "Submit application", FALSE)>>)
BlockedStep ==
    Container("jobs-easy-apply-modal", "Please enter a valid answer",
              <<DismissBtn, BackBtn, NextBtn(TRUE)>>)
BareStep == Container("artdeco-modal", "Your profile", <<Btn("Next", "", FALSE)>>)
SubmittedDialog ==
    Container("artdeco-modal", "Application submitted", <<DismissBtn, Btn("Done", "", FALSE)>>)
SentDialog ==
    Container("artdeco-modal", "Your application to Acme was sent",
              <<DismissBtn, Btn("Done", "", FALSE)>>)
\* the messaging overlay: its conversation list, and a conversation with
\* buttons whose texts fall in the vocabularies
MessagingList ==
    [Container("msg-overlay-container", "Messaging", <<>>) EXCEPT !.listBubble = TRUE]
ComposeWidget ==
    Container("msg-overlay-conversation-bubble", "Compose message",
              <<DismissBtn, Btn("Next", "", FALSE)>>)
EmojiWidget ==
    Container("msg-form", "Write a message",
              <<Btn("Open Emoji Keyboard", "", FALSE), Btn("Send", "", FALSE),
                Btn("Submit application", "", FALSE)>>)

Page(dialogs) == [body |-> "Jobs", dialogs |-> dialogs]

Docs ==
    {Page(<<>>), Page(<<ComposeWidget>>), Page(<<EmojiWidget>>),
     Page(<<ContactStep>>), Page(<<QuestionsStep>>), Page(<<ConsentStep>>),
     Page(<<ReviewStep>>), Page(<<SubmitStep>>), Page(<<BlockedStep>>), Page(<<BareStep>>),
     Page(<<SubmittedDialog>>), Page(<<SentDialog>>),
     Page(<<ComposeWidget, ContactStep>>), Page(<<EmojiWidget, SubmitStep>>),
     Page(<<ReviewStep, ComposeWidget>>), Page(<<MessagingList, ConsentStep>>)}

NoContainer == Container("", "", <<>>)

\* The dialog at a position of the document, NoContainer at position 0
DialogAt(doc, k) == IF k = 0 THEN NoContainer ELSE doc.dialogs[k]

\* unchecked: an advance click has been dispatched and checkApplicationSuccess
\* has not run since; detect, fill: the positions of the dialogs the detector
\* and fillFormFields / handleCheckboxes settled on (0: none), until the
\* tryClick* calls begin; scan: the dialog whose buttons the running
\* tryClick* has scanned
NoSeen == [unchecked |-> FALSE, detect |-> 0, fill |-> 0, scan |-> NoContainer]

-----------------------------------------------------------------------------
(* index.js / dashboard: the runBot() invocations *)

\* const MAX_RETRIES = 5
MAX_RETRIES == 5

\* The runBot() invocations that can be alive at once in the model
MaxFlows == 2

Flows == 1..MaxFlows

\* A runBot() invocation: "free" (not started or returned), "running" (inside
\* bot.run(), between two jobs), "applying" (inside applyToJob), "delay"
\* (the retry delay of the catch block), "restart" (the wait of run-non-stop)
\* stopAsked: POST /api/bot/stop was served while this invocation was inside
\* bot.run()
FreeFlow == [at |-> "free", attempt |-> 0, stopAsked |-> FALSE]

\* The parts of the bot at rest: what a specification of another part holds
\* them at
ParkedDrv ==
    /\ dom = Page(<<>>)
    /\ pc = "idle"
    /\ step = 0
    /\ result = FALSE
    /\ exit = "none"
    /\ cands = <<>>
    /\ clicks = 0
    /\ clicked = <<>>
    /\ scriptN = 0
    /\ scriptShown = 0
    /\ scriptOwed = FALSE
    /\ seen = NoSeen

ParkedRun ==
    /\ botRunning = FALSE
    /\ botInstance = FALSE
    /\ runNonStop = FALSE
    /\ flows = [f \in Flows |-> FreeFlow]

\* The job cards visited in the model, and the daily limits it tries
MaxJobs == 3

MaxLimit == 2

\* stateManager.js.  The day the process starts on, as
\* new Date().toISOString().split('T')[0] gives it, and the days after it
Today == "2026-01-05"

Days == <<Today, "2026-01-06", "2026-01-07">>

DayNumber(date) == CHOOSE k \in 1..Len(Days) : Days[k] = date

\* Nothing was recorded yet
NoRecords == [applied |-> 0, skipped |-> 0, failed |-> 0]

NoLedger == [k \in 1..Len(Days) |-> NoRecords]

\* The clock of the scheduler counts half hours from the midnight of Today
\* on: 2 ticks an hour, 48 a day
TicksOf(day, hours) == (day - 1) * 48 + hours * 2

\* now.getHours() and the day of now.toISOString().split('T')[0], as an
\* index of Days (the process runs in UTC)
getHours(t) == (t % 48) \div 2

DayOf(t) == (t \div 48) + 1

\* null, for a handle, a time and a date
NoTimer == 0

NoTime == -1

NoDate == 0

\* let schedulerTimeout = null; let scheduledTime = null;
\* let lastScheduledDate = null
NoScheduler ==
    [schedulerTimeout |-> NoTimer, scheduledTime |-> NoTime, lastScheduledDate |-> NoDate]

\* The scheduler settings of a user who lets the bot start between 9 PM and
\* 11 PM, auto-apply not enabled yet (defaultSchedulerSettings: 6 and 21)
NoAutoApply ==
    [autoApplyEnabled |-> FALSE, autoApplyStartHour |-> 21, autoApplyEndHour |-> 23]

NoTrigger == [running |-> 0, day |-> NoDate, again |-> FALSE, enabled |-> TRUE]

ParkedSched ==
    /\ now = 0
    /\ settings = NoAutoApply
    /\ scheduler = NoScheduler
    /\ timers = {}
    /\ triggered = NoTrigger

\* run() has not been called
NoLoop ==
    [pc |-> "idle", terms |-> 0, switchAfter |-> 0, page |-> 0, termApplications |-> 0,
     cardsLeft |-> 0, fetched |-> 0, emptied |-> FALSE, threw |-> FALSE]

ParkedSvc ==
    /\ today = Today
    /\ ledger = NoLedger
    /\ ParkedSched
    /\ runLoop = NoLoop

\* { date: today, applied: 0, skipped: 0, failed: 0 }
FreshDailyStats(date) == [date |-> date, applied |-> 0, skipped |-> 0, failed |-> 0]

\* checkAndResetDailyStats(): the stats of another day are replaced
checkAndResetDailyStats(stats, date) ==
    IF stats.date # date THEN FreshDailyStats(date) ELSE stats

\* hasApplied(jobId): !!this.appliedJobs.jobs[jobId]
hasApplied_never(jobs, jobId) == FALSE

hasApplied(jobs, jobId) == jobId \in jobs

\* isLimitReached(), on the stats checkAndResetDailyStats() has left
isLimitReached(stats, limit) == stats.applied >= limit

\* incrementSkipped() / incrementFailed()
incrementSkipped(stats) == [stats EXCEPT !.skipped = @ + 1]

incrementFailed(stats) == [stats EXCEPT !.failed = @ + 1]

\* this.sessionStats = { applied: 0, skipped: 0, failed: 0 } of a new bot
NewSessionStats == [applied |-> 0, skipped |-> 0, failed |-> 0]

\* The job cards getJobCards() can return
JobIds == {"4001", "4002"}

\* The titles of the job cards and the descriptions of the job pages
JobTitles == {"Backend Engineer", "Senior DEVOPS Engineer"}

JobDescriptions == {"We build payment APIs.", "Requires an active Security Clearance."}

JobCards ==
    [jobId : JobIds, alreadyApplied : BOOLEAN, hasEasyApply : BOOLEAN,
     title : JobTitles, description : JobDescriptions]

NoJob ==
    [jobId |-> "none", alreadyApplied |-> FALSE, hasEasyApply |-> FALSE,
     title |-> "", description |-> ""]

\* config.jobFilter of a user who excludes DevOps jobs and jobs that ask
\* for a clearance (BAD_JOB_TITLES, BAD_WORDS)
badJobTitles == <<"DevOps">>

badWords == <<"clearance">>

\* badJobTitles.find(badTitle => jobTitleLower.includes(badTitle.toLowerCase()))
badTitleFound(title) ==
    \E k \in 1..Len(badJobTitles) :
        /\ badJobTitles[k] # ""
        /\ includes(toLowerCase(title), toLowerCase(badJobTitles[k]))

\* config.jobFilter.badWords.find(word =>
\*     description.toLowerCase().includes(word.toLowerCase()))
badWordFound(description) ==
    \E k \in 1..Len(badWords) :
        /\ badWords[k] # ""
        /\ includes(toLowerCase(description), toLowerCase(badWords[k]))

\* getJobDescription(): the trimmed text of the description element, or ''
\* when no element matches the selectors or page.evaluate throws
getJobDescription(j) == {j.description, ""}

\* The stores applyToJob updates: the applied jobs and daily stats of the
\* state manager, and the session stats of the bot
Store(applied, daily, session) ==
    [jobs |-> applied.jobs, count |-> applied.count, daily |-> daily, session |-> session]

\* loadJSON(APPLIED_JOBS_FILE, { jobs: {}, count: 0 }) without a file
NoAppliedJobs == [jobs |-> {}, count |-> 0]

NoApply ==
    [jobId |-> "none", title |-> "", description |-> "", hadApplied |-> FALSE,
     navigated |-> FALSE, opened |-> FALSE,
     caught |-> FALSE, threw |-> FALSE, success |-> FALSE, reason |-> "none",
     pre |-> Store(NoAppliedJobs, FreshDailyStats(Today), NewSessionStats),
     post |-> Store(NoAppliedJobs, FreshDailyStats(Today), NewSessionStats)]

ParkedState ==
    /\ dailyStats = FreshDailyStats(Today)
    /\ dailyLimit = 1
    /\ ParkedSvc

ParkedApply ==
    /\ appliedJobs = NoAppliedJobs
    /\ sessionStats = NewSessionStats
    /\ applyPc = "idle"
    /\ job = NoJob
    /\ applyLast = NoApply
    /\ jobsSeen = 0
    /\ submitted = [j \in JobIds |-> 0]

\* LinkedInBot.init() has run initializeAI() once, in a process with the
\* keys k, before the first dialog is filled
InitFill ==
    /\ \E k \in [gemini : BOOLEAN, openrouter : BOOLEAN], g \in Outcomes, o \in Outcomes :
        \E st \in {initializeAI(FreshAI, k, g, o).st} :
            /\ activeProvider = st.activeProvider
            /\ geminiAvailable = st.geminiAvailable
            /\ openrouterAvailable = st.openrouterAvailable
            /\ geminiModel = st.geminiModel
            /\ openrouterClient = st.openrouterClient
            /\ aiKeys = k
    /\ aiLast = NoCall
    /\ rateLimited = FALSE
    /\ config \in Configs
    /\ fillPc = "idle"
    /\ fillLeft = 0
    /\ fillCur = NoItem
    /\ fillLast = NoFill
    /\ ParkedDrv
    /\ ParkedRun
    /\ ParkedState
    /\ ParkedApply
    /\ presetLast = NoPreset

\* How the loop of fillFormFields goes on after an exception in the body of
\* one form group, with left groups (this one included) still to visit:
\* the exception leaves fillFormFields, or the catch block logs it
catchFieldError_abort(left) == [raised |-> TRUE, left |-> 0]

\* catch (e) { console.log(...) } and the next turn of for (const group of formGroups)
catchFieldError(left) == [raised |-> FALSE, left |-> left - 1]

\* An exception in the body of one form group, at a stage of the body
FieldError(g, stage, invoked) ==
    \E c \in {catchFieldError(fillLeft)} :
        /\ fillLast' = IF c.raised THEN [what |-> "raised", by |-> "field"]
                       ELSE [what |-> "error", pre |-> g, stage |-> stage,
                             invoked |-> invoked]
        /\ fillLeft' = c.left
        /\ fillPc' = IF c.raised THEN "idle"
                     ELSE IF c.left = 0 THEN "checkboxes?" ELSE "fields"
        /\ fillCur' = NoItem

\* fillFormFields: find the modal and query its form groups
QueryFormGroups ==
    /\ fillPc = "idle"
    /\ \E n \in 0..MaxGroups :
        /\ fillLeft' = n
        /\ fillPc' = IF n = 0 THEN "checkboxes?" ELSE "fields"
    /\ fillLast' = NoFill
    /\ UNCHANGED <<aiVars, drvVars, runVars, stateVars, applyVars, presetLast, config, fillCur>>

\* fillFormFields, loop body: read the label and the controls of the next
\* form group from the live document
ReadFormGroup ==
    /\ fillPc = "fields"
    /\ fillCur = NoItem
    /\ fillCur' \in Groups
    /\ fillLast' = NoFill
    /\ UNCHANGED <<aiVars, drvVars, runVars, stateVars, applyVars, presetLast, config, fillPc, fillLeft>>

\* fillFormFields: page.$(modalSelector) or modal.$$(...) throws, outside
\* the loop and its try block
QueryFormGroupsThrows ==
    /\ fillPc = "idle"
    /\ fillLast' = [what |-> "raised", by |-> "query"]
    /\ UNCHANGED <<aiVars, drvVars, runVars, stateVars, applyVars, presetLast, config, fillPc,
                   fillLeft, fillCur>>

\* fillFormFields, loop body: the page.evaluate that extracts the label throws
ReadFormGroupThrows ==
    /\ fillPc = "fields"
    /\ fillCur = NoItem
    /\ FieldError(NoItem, "label", <<>>)
    /\ UNCHANGED <<aiVars, drvVars, runVars, stateVars, applyVars, presetLast, config>>

\* fillFormFields, loop body: a group.$(...) that classifies the group
\* throws, or the handler throws on its write (click, type, select) after it
\* has resolved the answer
FillOneGroupThrows ==
    /\ fillPc = "fields"
    /\ fillCur # NoItem
    /\ \/ /\ FieldError(fillCur, "classify", <<>>)
          /\ UNCHANGED aiVars
       \/ \E outs \in OutcomeRuns, picked \in BOOLEAN :
            \E r \in {FillGroup(config, fillCur, AIState, outs, picked)} :
                /\ r.wrote
                /\ SetAIState(r.st)
                /\ FieldError(fillCur, "write", r.invoked)
                /\ UNCHANGED <<aiKeys, aiLast, rateLimited>>
    /\ UNCHANGED <<drvVars, runVars, stateVars, applyVars, presetLast, config>>

\* fillFormFields, loop body: hand the group to the handler of its kind
FillOneGroup ==
    /\ fillPc = "fields"
    /\ fillCur # NoItem
    /\ \E outs \in OutcomeRuns, picked \in BOOLEAN :
        \E r \in {FillGroup(config, fillCur, AIState, outs, picked)} :
            /\ SetAIState(r.st)
            /\ fillLast' = [what |-> "group", pre |-> fillCur, post |-> r.group,
                            preActive |-> activeProvider, invoked |-> r.invoked,
                            preset |-> r.preset, answer |-> r.answer, wrote |-> r.wrote]
    /\ fillCur' = NoItem
    /\ fillLeft' = fillLeft - 1
    /\ fillPc' = IF fillLeft = 1 THEN "checkboxes?" ELSE "fields"
    /\ UNCHANGED <<notFill, config>>

\* handleCheckboxes: find the modal and query its checkboxes
QueryCheckboxes ==
    /\ fillPc = "checkboxes?"
    /\ \E n \in 0..MaxGroups :
        /\ fillLeft' = n
        /\ fillPc' = IF n = 0 THEN "idle" ELSE "checkboxes"
    /\ UNCHANGED <<aiVars, drvVars, runVars, stateVars, applyVars, presetLast, config, fillCur, fillLast>>

\* handleCheckboxes, loop body: read the state and the label of the next checkbox
ReadCheckbox ==
    /\ fillPc = "checkboxes"
    /\ fillCur = NoItem
    /\ fillCur' \in Checkboxes
    /\ fillLast' = NoFill
    /\ UNCHANGED <<aiVars, drvVars, runVars, stateVars, applyVars, presetLast, config, fillPc, fillLeft>>

\* handleCheckboxes, loop body: decide and click
HandleOneCheckbox ==
    /\ fillPc = "checkboxes"
    /\ fillCur # NoItem
    /\ \E outs \in OutcomeRuns :
        \E r \in {handleCheckbox(fillCur, AIState, outs)} :
            /\ SetAIState(r.st)
            /\ fillLast' = [what |-> "checkbox", pre |-> fillCur, post |-> r.box,
                            preActive |-> activeProvider, invoked |-> r.invoked,
                            decision |-> r.decision, raw |-> r.raw, clicked |-> r.clicked]
    /\ fillCur' = NoItem
    /\ fillLeft' = fillLeft - 1
    /\ fillPc' = IF fillLeft = 1 THEN "idle" ELSE "checkboxes"
    /\ UNCHANGED <<notFill, config>>

NextFill ==
    \/ QueryFormGroups \/ ReadFormGroup \/ FillOneGroup
    \/ QueryFormGroupsThrows \/ ReadFormGroupThrows \/ FillOneGroupThrows
    \/ QueryCheckboxes \/ ReadCheckbox \/ HandleOneCheckbox

SpecFill == InitFill /\ [][NextFill]_vars

-----------------------------------------------------------------------------
(* aiService.js on its own: the calls the rest of the bot makes *)

\* The module as loaded: no provider is set up; config.ai holds the keys.
InitAI ==
    /\ activeProvider = "none"
    /\ geminiAvailable = FALSE
    /\ openrouterAvailable = FALSE
    /\ geminiModel = FALSE
    /\ openrouterClient = FALSE
    /\ aiKeys \in [gemini : BOOLEAN, openrouter : BOOLEAN]
    /\ aiLast = NoCall
    /\ rateLimited = FALSE
    /\ config = ConfigDefaults
    /\ fillPc = "idle"
    /\ fillLeft = 0
    /\ fillCur = NoItem
    /\ fillLast = NoFill
    /\ ParkedDrv
    /\ ParkedRun
    /\ ParkedState
    /\ ParkedApply
    /\ presetLast = NoPreset

\* LinkedInBot.init() calls initializeAI() at the start of every bot.run().
InitializeAI ==
    \E gOut \in Outcomes, oOut \in Outcomes :
        \E r \in {initializeAI(AIState, aiKeys, gOut, oOut)} :
            /\ SetAIState(r.st)
            /\ aiLast' = [op |-> "initializeAI", pre |-> AIState, outs |-> <<gOut, oOut>>,
                          value |-> Null, invoked |-> r.invoked, rlBefore |-> rateLimited,
                          threw |-> FALSE]
            /\ UNCHANGED <<aiKeys, rateLimited, notAI>>

\* One answerQuestion call of a filler.
AnswerQuestion ==
    \E outs \in OutcomeRuns :
        \E r \in {answerQuestion(AIState, outs)} :
            /\ SetAIState(r.st)
            /\ aiLast' = [op |-> "answerQuestion", pre |-> AIState, outs |-> outs,
                          value |-> r.value, invoked |-> r.invoked, rlBefore |-> rateLimited,
                          threw |-> r.threw]
            /\ rateLimited' = (rateLimited \/ PrimaryRateLimited(AIState, outs, r.invoked))
            /\ UNCHANGED <<aiKeys, notAI>>

\* One answerCheckboxQuestion call of handleCheckboxes.
AnswerCheckboxQuestion ==
    \E outs \in OutcomeRuns :
        \E r \in {answerCheckboxQuestion(AIState, outs)} :
            /\ SetAIState(r.st)
            /\ aiLast' = [op |-> "answerCheckboxQuestion", pre |-> AIState,
                          outs |-> outs, value |-> r.value, invoked |-> r.invoked,
                          rlBefore |-> rateLimited, threw |-> r.threw]
            /\ rateLimited' = (rateLimited \/ PrimaryRateLimited(AIState, outs, r.invoked))
            /\ UNCHANGED <<aiKeys, notAI>>

NextAI == InitializeAI \/ AnswerQuestion \/ AnswerCheckboxQuestion

SpecAI == InitAI /\ [][NextAI]_vars

-----------------------------------------------------------------------------
(* LinkedInBot.js: handleEasyApplyModal, one action per step of the handler, *)
(* against a page that may change between any two of them                   *)

\* An enabled button with one of the texts, in a dialog that is not the
\* messaging widget
OffersButton(doc, texts) ==
    \E k \in 1..Len(doc.dialogs) :
        /\ ~isMessagingWidget(textContent(doc.dialogs[k]))
        /\ \E i \in 1..Len(doc.dialogs[k].buttons) :
            /\ trim(doc.dialogs[k].buttons[i].text) \in texts
            /\ ~doc.dialogs[k].buttons[i].disabled

\* The pages an N-step dialog shows: its first N-1 steps offer an enabled
\* Next or Review button, its Nth step an enabled "Submit application"
\* button (each in a dialog the detector recognises), and the page that
\* follows the click on Submit contains "application submitted"
StepPages ==
    {d \in Docs : /\ findModal(d).found
                  /\ OffersButton(d, {"Next", "Continue to next step", "Review",
                                      "Review your application"})
                  /\ ~OffersButton(d, {"Submit application"})}

SubmitPages ==
    {d \in Docs : findModal(d).found /\ OffersButton(d, {"Submit application"})}

SubmittedPages ==
    {d \in Docs : includes(toLowerCase(innerText(d)), "application submitted")}

ScriptPages(n, j) ==
    IF j < n THEN StepPages ELSE IF j = n THEN SubmitPages ELSE SubmittedPages

\* The dialog stops counting as an N-step dialog
ScriptOff ==
    /\ scriptN' = 0
    /\ scriptShown' = 0
    /\ scriptOwed' = FALSE
    /\ clicks' = 0

\* The bot looks at the page: a dialog that still owes its reaction to a
\* click was too slow
ScriptLooked ==
    IF scriptOwed THEN ScriptOff ELSE UNCHANGED <<scriptN, scriptShown, scriptOwed, clicks>>

\* The bot dispatched an advance click
ScriptClicked ==
    IF scriptN > 0 /\ ~scriptOwed
    THEN scriptOwed' = TRUE /\ clicks' = clicks + 1 /\ UNCHANGED <<scriptN, scriptShown>>
    ELSE ScriptOff

InitDriver ==
    /\ ParkedDrv
    /\ activeProvider = "none"
    /\ geminiAvailable = FALSE
    /\ openrouterAvailable = FALSE
    /\ geminiModel = FALSE
    /\ openrouterClient = FALSE
    /\ aiKeys = [gemini |-> FALSE, openrouter |-> FALSE]
    /\ aiLast = NoCall
    /\ rateLimited = FALSE
    /\ config = ConfigDefaults
    /\ fillPc = "idle"
    /\ fillLeft = 0
    /\ fillCur = NoItem
    /\ fillLast = NoFill
    /\ ParkedRun
    /\ ParkedState
    /\ ParkedApply
    /\ presetLast = NoPreset

notDriver == <<aiVars, fillVars, runVars, stateVars, applyVars, presetLast>>

\* applyToJob calls handleEasyApplyModal(): const maxSteps = 10; let step = 0.
\* The page shows some document; n > 0: it is the first step of an n-step dialog.
Start ==
    /\ pc = "idle"
    /\ \E d \in Docs, n \in 0..maxSteps :
        /\ n > 0 => d \in ScriptPages(n, 1)
        /\ dom' = d
        /\ scriptN' = n
        /\ scriptShown' = IF n > 0 THEN 1 ELSE 0
    /\ scriptOwed' = FALSE
    /\ pc' = "loop"
    /\ step' = 0
    /\ result' = FALSE
    /\ exit' = "none"
    /\ cands' = <<>>
    /\ clicks' = 0
    /\ clicked' = <<>>
    /\ seen' = NoSeen
    /\ UNCHANGED notDriver

\* The page changes: the dialog reacts to a click, re-renders, closes, the
\* messaging overlay opens ...
DomChange ==
    /\ pc \notin {"idle", "done"}
    /\ \E d \in Docs :
        /\ dom' = d
        /\ IF scriptN > 0 /\ scriptOwed /\ d \in ScriptPages(scriptN, scriptShown + 1)
           THEN /\ scriptShown' = scriptShown + 1
                /\ scriptOwed' = FALSE
                /\ UNCHANGED <<scriptN, clicks>>
           ELSE ScriptOff
    /\ UNCHANGED <<pc, step, result, exit, cands, clicked, seen, notDriver>>

script == <<scriptN, scriptShown, scriptOwed, clicks>>

\* while (step < maxSteps) { step++; ...
EnterStep ==
    /\ pc = "loop"
    /\ withinBudget(step)
    /\ step' = step + 1
    /\ pc' = "detect"
    /\ clicked' = <<>>
    /\ seen' = [NoSeen EXCEPT !.unchecked = seen.unchecked]
    /\ UNCHANGED <<dom, result, exit, cands, script, notDriver>>

\* ... } await this.closeModal(); return false
Exhausted ==
    /\ pc = "loop"
    /\ ~withinBudget(step)
    /\ clicked' = Dispatched(<<closeModal(dom)>>)
    /\ result' = FALSE
    /\ exit' = "exhausted"
    /\ pc' = "done"
    /\ UNCHANGED <<dom, step, cands, script, seen, notDriver>>

\* Find the Easy Apply modal
Detect ==
    /\ pc = "detect"
    /\ pc' = IF findModal(dom).found THEN "check" ELSE "gone"
    /\ seen' = [seen EXCEPT !.detect = modalIndex(dom)]
    /\ ScriptLooked
    /\ UNCHANGED <<dom, step, result, exit, cands, clicked, notDriver>>

\* if (await this.checkApplicationSuccess()) return true, else go on at
\* otherwise
ReturnIfSuccess(otherwise) ==
    /\ \E r \in {checkApplicationSuccess(dom)} :
        IF r.success
        THEN /\ result' = TRUE
             /\ exit' = "success"
             /\ clicked' = r.clicked
             /\ pc' = "done"
        ELSE /\ pc' = otherwise
             /\ UNCHANGED <<result, exit, clicked>>
    /\ seen' = [seen EXCEPT !.unchecked = FALSE]

\* The modal is not found and the loop goes on with its next iteration
modalGone_retry(success) ==
    IF success THEN [result |-> TRUE, exit |-> "success", pc |-> "done"]
    ELSE [result |-> FALSE, exit |-> "none", pc |-> "loop"]

\* if (await this.checkApplicationSuccess()) return true; return false
modalGone(success) ==
    [result |-> success, exit |-> IF success THEN "success" ELSE "gone", pc |-> "done"]

\* Modal not found: the last check for success, and the return
CheckGone ==
    /\ pc = "gone"
    /\ \E r \in {checkApplicationSuccess(dom)} :
        /\ result' = modalGone(r.success).result
        /\ exit' = modalGone(r.success).exit
        /\ pc' = modalGone(r.success).pc
        /\ clicked' = r.clicked
    /\ seen' = [seen EXCEPT !.unchecked = FALSE]
    /\ UNCHANGED <<dom, step, cands, script, notDriver>>

\* "Check for success", the check of each step
CheckSuccess ==
    /\ pc = "check"
    /\ ReturnIfSuccess("fill")
    /\ UNCHANGED <<dom, step, cands, script, notDriver>>

\* await this.fillFormFields(); await this.handleCheckboxes(): each takes
\* the first element that matches its modalSelector and works inside it.
\* They write field values and checkbox states, which are no part of the
\* text or the buttons of the dialog (their steps are those of SpecFill)
FillForm ==
    /\ pc = "fill"
    /\ pc' = "submit"
    /\ seen' = [seen EXCEPT !.fill = formModal(dom)]
    /\ UNCHANGED <<dom, step, result, exit, cands, clicked, script, notDriver>>

\* The tryClick* loops with a handler that returns when the last of them
\* finds nothing to click
TryCandidate_abort(onTrue, onFalse) ==
    IF cands = <<>>
    THEN /\ pc' = IF onFalse = "stuck" THEN "done" ELSE onFalse
         /\ seen' = [seen EXCEPT !.scan = NoContainer]
         /\ UNCHANGED <<cands, clicked, script>>
    ELSE \E r \in {clickModalButtonByIndex(dom, Head(cands))} :
            IF r.ok
            THEN /\ pc' = onTrue
                 /\ cands' = <<>>
                 /\ clicked' = <<r.click>>
                 /\ seen' = [seen EXCEPT !.unchecked = TRUE, !.scan = NoContainer]
                 /\ ScriptClicked
            ELSE /\ cands' = Tail(cands)
                 /\ UNCHANGED <<pc, clicked, script, seen>>

\* tryClickSubmit / tryClickReview / tryClickNext, one turn of the priority
\* loops: clickModalButtonByIndex on the next candidate; return true (go on
\* at onTrue) when it clicked, false (onFalse) when no candidate is left
TryCandidate(onTrue, onFalse) ==
    IF cands = <<>>
    THEN /\ pc' = onFalse
         /\ seen' = [seen EXCEPT !.scan = NoContainer]
         /\ UNCHANGED <<cands, clicked, script>>
    ELSE \E r \in {clickModalButtonByIndex(dom, Head(cands))} :
            IF r.ok
            THEN /\ pc' = onTrue
                 /\ cands' = <<>>
                 /\ clicked' = <<r.click>>
                 /\ seen' = [seen EXCEPT !.unchecked = TRUE, !.scan = NoContainer]
                 /\ ScriptClicked
            ELSE /\ cands' = Tail(cands)
                 /\ UNCHANGED <<pc, clicked, script, seen>>

\* tryClickSubmit: the scan of the buttons
ScanSubmit ==
    /\ pc = "submit"
    /\ cands' = submitCandidates(modalButtons(dom))
    /\ seen' = [NoSeen EXCEPT !.unchecked = seen.unchecked,
                              !.scan = DialogAt(dom, scannedIndex(dom))]
    /\ pc' = "submitClick"
    /\ UNCHANGED <<dom, step, result, exit, clicked, script, notDriver>>

ClickSubmit ==
    /\ pc = "submitClick"
    /\ TryCandidate("submitted", "review")
    /\ UNCHANGED <<dom, step, result, exit, notDriver>>

\* Clicked Submit: if (await this.checkApplicationSuccess()) return true; continue
CheckSubmitted ==
    /\ pc = "submitted"
    /\ ReturnIfSuccess("loop")
    /\ ScriptLooked
    /\ UNCHANGED <<dom, step, cands, notDriver>>

\* tryClickReview
ScanReview ==
    /\ pc = "review"
    /\ cands' = reviewCandidates(modalButtons(dom))
    /\ seen' = [seen EXCEPT !.scan = DialogAt(dom, scannedIndex(dom))]
    /\ pc' = "reviewClick"
    /\ UNCHANGED <<dom, step, result, exit, clicked, script, notDriver>>

ClickReview ==
    /\ pc = "reviewClick"
    /\ TryCandidate("loop", "next")
    /\ UNCHANGED <<dom, step, result, exit, notDriver>>

\* tryClickNext
ScanNext ==
    /\ pc = "next"
    /\ cands' = nextCandidates(modalButtons(dom))
    /\ seen' = [seen EXCEPT !.scan = DialogAt(dom, scannedIndex(dom))]
    /\ pc' = "nextClick"
    /\ UNCHANGED <<dom, step, result, exit, clicked, script, notDriver>>

ClickNext ==
    /\ pc = "nextClick"
    /\ TryCandidate("loop", "stuck")
    /\ UNCHANGED <<dom, step, result, exit, notDriver>>

\* No progress made: log the available buttons
LogButtons ==
    /\ pc = "stuck"
    /\ pc' = "loop"
    /\ UNCHANGED <<dom, step, result, exit, cands, clicked, script, seen, notDriver>>

NextDriver ==
    \/ Start \/ DomChange \/ EnterStep \/ Exhausted \/ Detect \/ CheckGone
    \/ CheckSuccess \/ FillForm \/ ScanSubmit \/ ClickSubmit \/ CheckSubmitted
    \/ ScanReview \/ ClickReview \/ ScanNext \/ ClickNext \/ LogButtons

SpecDriver == InitDriver /\ [][NextDriver]_vars

\* The steps of the handler itself
HandlerStep ==
    \/ EnterStep \/ Exhausted \/ Detect \/ CheckGone \/ CheckSuccess \/ FillForm
    \/ ScanSubmit \/ ClickSubmit \/ CheckSubmitted \/ ScanReview \/ ClickReview
    \/ ScanNext \/ ClickNext \/ LogButtons

-----------------------------------------------------------------------------
(* LinkedInBot.js: the modal detection of handleEasyApplyModal on its own,   *)
(* applied to documents of up to MaxDialogs dialog-like elements             *)

MaxDialogs == 2

\* the modal while its content loads
LoadingStep == Container("jobs-easy-apply-modal", "Loading", <<>>)

DetectDialogs ==
    {ContactStep, QuestionsStep, ReviewStep, SubmitStep, BlockedStep, BareStep,
     LoadingStep, SubmittedDialog, ComposeWidget, EmojiWidget, MessagingList}

RECURSIVE DialogSeqs(_)
DialogSeqs(n) ==
    IF n = 0 THEN {<<>>}
    ELSE DialogSeqs(n - 1)
            \cup {Append(ds, d) : ds \in {q \in DialogSeqs(n - 1) : Len(q) = n - 1},
                                  d \in DetectDialogs}

DetectDocs == {Page(ds) : ds \in DialogSeqs(MaxDialogs)}

InitDetect ==
    /\ dom \in DetectDocs
    /\ pc = "idle"
    /\ step = 0
    /\ result = FALSE
    /\ exit = "none"
    /\ cands = <<>>
    /\ clicks = 0
    /\ clicked = <<>>
    /\ scriptN = 0
    /\ scriptShown = 0
    /\ scriptOwed = FALSE
    /\ seen = NoSeen
    /\ activeProvider = "none"
    /\ geminiAvailable = FALSE
    /\ openrouterAvailable = FALSE
    /\ geminiModel = FALSE
    /\ openrouterClient = FALSE
    /\ aiKeys = [gemini |-> FALSE, openrouter |-> FALSE]
    /\ aiLast = NoCall
    /\ rateLimited = FALSE
    /\ config = ConfigDefaults
    /\ fillPc = "idle"
    /\ fillLeft = 0
    /\ fillCur = NoItem
    /\ fillLast = NoFill
    /\ ParkedRun
    /\ ParkedState
    /\ ParkedApply
    /\ presetLast = NoPreset

\* const modal = await this.page.evaluate(...): the detector runs on the
\* document
FindModal ==
    /\ pc = "idle"
    /\ pc' = IF findModal(dom).found THEN "found" ELSE "notFound"
    /\ seen' = [seen EXCEPT !.detect = modalIndex(dom)]
    /\ UNCHANGED <<dom, step, result, exit, cands, clicked, script, notDriver>>

NextDetect == FindModal

SpecDetect == InitDetect /\ [][NextDetect]_vars

-----------------------------------------------------------------------------
(* Claims about aiService.js, checked under SpecAI *)

IsResolve(op) == op \in {"answerQuestion", "answerCheckboxQuestion"}

\* C3: when the active primary (Gemini) fails a call with a rate-limit error
\* and the backup (OpenRouter) is available, the same answerQuestion call
\* retries on the backup and returns the backup's answer "42", not null.
Cex_C3 ==
    (/\ aiLast.op = "answerQuestion"
     /\ aiLast.pre.activeProvider = "gemini"
     /\ aiLast.pre.geminiModel
     /\ aiLast.pre.openrouterAvailable
     /\ aiLast.outs = <<[kind |-> "ratelimit", text |-> ""], [kind |-> "ok", text |-> "42"]>>)
        => (aiLast.value = "42" /\ aiLast.invoked = <<"gemini", "openrouter">>)

\* C4: once the primary has failed with a rate-limit error while a backup was
\* available, no later resolve call of the process invokes the primary.
Cex_C4 ==
    (aiLast.rlBefore /\ IsResolve(aiLast.op)) => "gemini" \notin Range(aiLast.invoked)

-----------------------------------------------------------------------------
(* Claims about the fillers, checked under SpecFill *)

\* The last loop body handled a form group / a checkbox
FilledGroup == fillLast.what = "group"
HandledCheckbox == fillLast.what = "checkbox"

\* C5: whenever getPresetAnswer returns a non-null value for the label of a
\* text, textarea, select or radio group, the filler resolves to that value
\* and makes no provider request.
\* (an answer of null and one of '' both leave the field alone: they count as
\* the same answer)
Cex_C5 ==
    (FilledGroup /\ fillLast.preset \notin {Null, Unasked})
        => /\ fillLast.invoked = <<>>
           /\ \/ fillLast.answer = fillLast.preset
              \/ ~Truthy(fillLast.answer) /\ ~Truthy(fillLast.preset)

\* A company-follow label: it contains "follow" and does not contain "follow up"
IsFollowLabel(label) ==
    includes(toLowerCase(label), "follow") /\ ~includes(toLowerCase(label), "follow up")

\* C6: a checkbox whose label contains "follow" and not "follow up" is
\* unchecked after handleCheckboxes has handled it, whatever it was before.
Cex_C6 ==
    (HandledCheckbox /\ IsFollowLabel(fillLast.pre.label)) => ~fillLast.post.checked

\* The select shows its placeholder: nothing selected, or an option whose text
\* contains "select"
OnPlaceholder(g) ==
    CurrentSelection(g) = "" \/ includes(toLowerCase(CurrentSelection(g)), "select")

\* C7: a select on its placeholder with more than one option, for which the
\* resolver gave no answer (null or empty), is left on a non-placeholder option.
Cex_C7 ==
    (/\ FilledGroup
     /\ fillLast.pre.kind = "select"
     /\ OnPlaceholder(fillLast.pre)
     /\ Len(fillLast.pre.options) > 1
     /\ ~Truthy(fillLast.answer))
        => ~OnPlaceholder(fillLast.post)

\* The resolver's answer is exactly "true" once trimmed and lower-cased
IsTrue(answer) == answer # Null /\ trim(toLowerCase(answer)) = "true"

Wit_C8_failed ==
    /\ HandledCheckbox
    /\ ~fillLast.pre.checked
    /\ fillLast.invoked # <<>>
    /\ fillLast.raw = Null
    /\ ~fillLast.post.checked

-----------------------------------------------------------------------------
(* index.js runBot() and the dashboard's start / stop endpoints: the        *)
(* runBot() invocations of one process, interleaved at their awaits         *)

InitRun ==
    /\ botRunning = FALSE
    /\ botInstance = FALSE
    /\ runNonStop \in BOOLEAN
    /\ flows = [f \in Flows |-> FreeFlow]
    /\ dailyStats = FreshDailyStats(Today)
    /\ dailyLimit \in 1..MaxLimit
    /\ ParkedSvc
    /\ ParkedApply
    /\ presetLast = NoPreset
    /\ ParkedDrv
    /\ activeProvider = "none"
    /\ geminiAvailable = FALSE
    /\ openrouterAvailable = FALSE
    /\ geminiModel = FALSE
    /\ openrouterClient = FALSE
    /\ aiKeys = [gemini |-> FALSE, openrouter |-> FALSE]
    /\ aiLast = NoCall
    /\ rateLimited = FALSE
    /\ config = ConfigDefaults
    /\ fillPc = "idle"
    /\ fillLeft = 0
    /\ fillCur = NoItem
    /\ fillLast = NoFill

notRun == <<aiVars, fillVars, drvVars, applyVars, presetLast, svcVars>>

\* runBot, one turn of its while loop up to the await of bot.run():
\* attempt++; bot = new LinkedInBot(); setBotInstance(bot); setBotRunning(true)
StartAttempt(f, attempt) ==
    /\ flows' = [flows EXCEPT ![f] = [at |-> "running", attempt |-> attempt,
                                      stopAsked |-> FALSE]]
    /\ botInstance' = TRUE
    /\ botRunning' = TRUE

\* runBot(): if (stateManager.isLimitReached()) return; else the first turn
\* of the while loop
runBot(f) ==
    /\ dailyStats' = checkAndResetDailyStats(dailyStats, today)
    /\ IF isLimitReached(checkAndResetDailyStats(dailyStats, today), dailyLimit)
       THEN /\ flows' = [flows EXCEPT ![f] = FreeFlow]
            /\ UNCHANGED <<botInstance, botRunning>>
       ELSE StartAttempt(f, 1)

\* POST /api/bot/start: if (botRunning) "Bot is already running", else
\* startBotCallback(), which calls runBot() and does not await it
DashboardStart(f) ==
    /\ flows[f].at = "free"
    /\ ~botRunning
    /\ runBot(f)
    /\ UNCHANGED <<runNonStop, dailyLimit, notRun>>

\* POST /api/bot/stop: if (botInstance && botRunning) botRunning = false
DashboardStop ==
    /\ botInstance /\ botRunning
    /\ botRunning' = FALSE
    /\ flows' = [f \in Flows |->
                    IF flows[f].at \in {"running", "applying"}
                    THEN [flows[f] EXCEPT !.stopAsked = TRUE] ELSE flows[f]]
    /\ UNCHANGED <<botInstance, runNonStop, stateVars, notRun>>

\* The job attempts of the day, whatever their outcome
Attempts(stats) == stats.applied + stats.skipped + stats.failed

\* run(): the polls of shouldBotRun() and isLimitReached() passed,
\* const result = await this.applyToJob(job)
BeginJob(f) ==
    /\ flows[f].at = "running"
    /\ botRunning
    /\ ~isLimitReached(checkAndResetDailyStats(dailyStats, today), dailyLimit)
    /\ Attempts(dailyStats) + Cardinality({g \in Flows : flows[g].at = "applying"}) < MaxJobs
    /\ dailyStats' = checkAndResetDailyStats(dailyStats, today)
    /\ flows' = [flows EXCEPT ![f].at = "applying"]
    /\ UNCHANGED <<botRunning, botInstance, runNonStop, dailyLimit, notRun>>

\* applyToJob has returned: the job was applied to (addAppliedJob), skipped
\* (incrementSkipped), failed (incrementFailed), or the attempt left the
\* daily stats alone
EndJob(f, outcome) ==
    /\ flows[f].at = "applying"
    /\ flows' = [flows EXCEPT ![f].at = "running"]
    /\ dailyStats' = CASE outcome = "applied" -> [dailyStats EXCEPT !.applied = @ + 1]
                        [] outcome = "skipped" -> incrementSkipped(dailyStats)
                        [] outcome = "failed" -> incrementFailed(dailyStats)
                        [] outcome = "uncounted" -> dailyStats
    /\ UNCHANGED <<botRunning, botInstance, runNonStop, dailyLimit, notRun>>

\* run() returns its stats (stop requested, limit reached or no jobs left):
\* setBotRunning(false); success = true; with run-non-stop the 5 minute wait
RunCompletes(f) ==
    /\ flows[f].at = "running"
    /\ botRunning' = FALSE
    /\ flows' = [flows EXCEPT ![f] = IF runNonStop
                                      THEN [FreeFlow EXCEPT !.at = "restart"]
                                      ELSE FreeFlow]
    /\ UNCHANGED <<botInstance, runNonStop, stateVars, notRun>>

\* The catch block without its setBotRunning(false)
RunThrows_flagKept(f) ==
    /\ flows[f].at = "running"
    /\ flows' = [flows EXCEPT ![f] = IF flows[f].attempt < MAX_RETRIES
                                      THEN [at |-> "delay", attempt |-> flows[f].attempt,
                                            stopAsked |-> FALSE]
                                      ELSE FreeFlow]
    /\ UNCHANGED <<botRunning, botInstance, runNonStop, stateVars, notRun>>

\* run() throws (init, login, the search: applyToJob catches its own
\* exceptions): catch: setBotRunning(false); the retry delay when
\* attempt < MAX_RETRIES, else the loop ends ("Bot failed after all retries")
RunThrows(f) ==
    /\ flows[f].at = "running"
    /\ botRunning' = FALSE
    /\ flows' = [flows EXCEPT ![f] = IF flows[f].attempt < MAX_RETRIES
                                      THEN [at |-> "delay", attempt |-> flows[f].attempt,
                                            stopAsked |-> FALSE]
                                      ELSE FreeFlow]
    /\ UNCHANGED <<botInstance, runNonStop, stateVars, notRun>>

\* The retry delay is over: the next turn of the while loop
RetryAfterDelay(f) ==
    /\ flows[f].at = "delay"
    /\ StartAttempt(f, flows[f].attempt + 1)
    /\ UNCHANGED <<runNonStop, stateVars, notRun>>

\* The 5 minutes are over: return runBot()
RestartNonStop(f) ==
    /\ flows[f].at = "restart"
    /\ runBot(f)
    /\ UNCHANGED <<runNonStop, dailyLimit, notRun>>

NextRun ==
    \/ DashboardStop
    \/ \E f \in Flows :
        \/ DashboardStart(f) \/ BeginJob(f) \/ RunCompletes(f)
        \/ \E o \in {"applied", "skipped", "failed", "uncounted"} : EndJob(f, o)
        \/ RunThrows(f) \/ RetryAfterDelay(f) \/ RestartNonStop(f)

SpecRun == InitRun /\ [][NextRun]_vars

-----------------------------------------------------------------------------
(* aiService.js getPresetAnswer on its own: one question after another,     *)
(* under one configuration                                                  *)

InitPreset ==
    /\ presetLast = NoPreset
    /\ config \in Configs
    /\ fillPc = "idle"
    /\ fillLeft = 0
    /\ fillCur = NoItem
    /\ fillLast = NoFill
    /\ activeProvider = "none"
    /\ geminiAvailable = FALSE
    /\ openrouterAvailable = FALSE
    /\ geminiModel = FALSE
    /\ openrouterClient = FALSE
    /\ aiKeys = [gemini |-> FALSE, openrouter |-> FALSE]
    /\ aiLast = NoCall
    /\ rateLimited = FALSE
    /\ ParkedDrv
    /\ ParkedRun
    /\ ParkedState
    /\ ParkedApply

\* getPresetAnswer(question)
GetPresetAnswer(question) ==
    /\ presetLast' = [question |-> question, value |-> getPresetAnswer(config, question)]
    /\ UNCHANGED <<aiVars, fillVars, drvVars, runVars, stateVars, applyVars>>

NextPreset == \E question \in Questions : GetPresetAnswer(question)

SpecPreset == InitPreset /\ [][NextPreset]_vars

-----------------------------------------------------------------------------
(* LinkedInBot.js applyToJob and the job loop of run(): one bot instance    *)
(* visiting job cards, one applyToJob at a time, split at its awaits        *)


\* The message of an exception thrown inside the try block
ErrorMessages == {"Navigation timeout of 30000 ms exceeded"}

\* this.sessionStats.skipped++; stateManager.incrementSkipped()
skipBoth(st) ==
    [st EXCEPT !.session.skipped = @ + 1, !.daily = incrementSkipped(@)]

\* this.sessionStats.skipped++ alone
skipSession(st) == [st EXCEPT !.session.skipped = @ + 1]

\* this.sessionStats.failed++; stateManager.incrementFailed()
failBoth(st) ==
    [st EXCEPT !.session.failed = @ + 1, !.daily = incrementFailed(@)]

\* stateManager.addAppliedJob(jobId, ...): jobs[jobId] = ...; count++;
\* dailyStats.applied++
addAppliedJob(st, jobId) ==
    [st EXCEPT !.jobs = @ \cup {jobId}, !.count = @ + 1, !.daily.applied = @ + 1]

\* if (applied) { addAppliedJob; sessionStats.applied++; return { success: true } }
recordApplied(st, jobId) ==
    [addAppliedJob(st, jobId) EXCEPT !.session.applied = @ + 1]

\* How applyToJob leaves its try block on an exception: an exception that
\* reaches the caller, or the catch block's return value
catchError_rethrow(st, message) ==
    [st |-> st, threw |-> TRUE, caught |-> FALSE, reason |-> message]

\* catch (error) { logError; sessionStats.failed++; incrementFailed();
\* notifyApplicationError; closeModal; return { success: false, reason: error.message } }
catchError(st, message) ==
    [st |-> failBoth(st), threw |-> FALSE, caught |-> TRUE, reason |-> message]

\* The code of applyToJob before its try block: the early returns, or "try"
applyToJobHead(st, j) ==
    IF hasApplied(st.jobs, j.jobId)
    THEN [st |-> skipBoth(st), reason |-> "already_applied"]
    ELSE IF j.alreadyApplied
    THEN [st |-> skipSession(addAppliedJob(st, j.jobId)),
          reason |-> "already_applied_linkedin"]
    ELSE [st |-> st, reason |-> "try"]

\* The applied jobs a process can load: the constructor leaves a count that
\* is a number as it is; the stores here are the ones whose count is right
ConsistentStores == {[jobs |-> ids, count |-> Cardinality(ids)] : ids \in SUBSET JobIds}

TheStore == Store(appliedJobs, dailyStats, sessionStats)

\* applyToJob ends for job j: it returns { success, reason }, or it throws
Ends(j, st, reason, success, navigated, opened, caught, threw) ==
    /\ appliedJobs' = [jobs |-> st.jobs, count |-> st.count]
    /\ dailyStats' = st.daily
    /\ sessionStats' = st.session
    /\ applyLast' = [jobId |-> j.jobId, title |-> j.title, description |-> j.description,
                     hadApplied |-> hasApplied(appliedJobs.jobs, j.jobId),
                     navigated |-> navigated, opened |-> opened,
                     caught |-> caught, threw |-> threw, success |-> success,
                     reason |-> reason, pre |-> TheStore, post |-> st]
    /\ applyPc' = IF threw THEN "aborted" ELSE "loop"
    /\ job' = NoJob

\* An exception inside the try block
Throws(message, navigated, opened) ==
    \E c \in {catchError(TheStore, message)} :
        Ends(job, c.st, c.reason, FALSE, navigated, opened, c.caught, c.threw)

\* An early return of the try block
Returns(st, reason, navigated, opened) ==
    Ends(job, st, reason, FALSE, navigated, opened, FALSE, FALSE)

notApply == <<aiVars, fillVars, drvVars, runVars, dailyLimit, presetLast, svcVars>>

InitApply ==
    /\ appliedJobs \in ConsistentStores
    /\ dailyStats = FreshDailyStats(Today)
    /\ dailyLimit \in 1..MaxJobs
    /\ ParkedSvc
    /\ sessionStats = NewSessionStats
    /\ applyPc = "loop"
    /\ job = NoJob
    /\ applyLast = NoApply
    /\ jobsSeen = 0
    /\ submitted = [j \in JobIds |-> 0]
    /\ presetLast = NoPreset
    /\ botRunning = TRUE
    /\ botInstance = TRUE
    /\ runNonStop = FALSE
    /\ flows = [f \in Flows |-> FreeFlow]
    /\ ParkedDrv
    /\ activeProvider = "none"
    /\ geminiAvailable = FALSE
    /\ openrouterAvailable = FALSE
    /\ geminiModel = FALSE
    /\ openrouterClient = FALSE
    /\ aiKeys = [gemini |-> FALSE, openrouter |-> FALSE]
    /\ aiLast = NoCall
    /\ rateLimited = FALSE
    /\ config = ConfigDefaults
    /\ fillPc = "idle"
    /\ fillLeft = 0
    /\ fillCur = NoItem
    /\ fillLast = NoFill

\* run(), for (const job of jobs): the polls passed;
\* if (job.alreadyApplied) continue; if (!job.hasEasyApply) continue
SkipJobCard(j) ==
    /\ applyPc = "loop"
    /\ jobsSeen < MaxJobs
    /\ botRunning
    /\ ~isLimitReached(checkAndResetDailyStats(dailyStats, today), dailyLimit)
    /\ j.alreadyApplied \/ ~j.hasEasyApply
    /\ jobsSeen' = jobsSeen + 1
    /\ dailyStats' = checkAndResetDailyStats(dailyStats, today)
    /\ UNCHANGED <<appliedJobs, sessionStats, applyPc, job, applyLast, submitted, notApply>>

\* run(): const result = await this.applyToJob(job), up to the first await
\* of applyToJob
CallApplyToJob(j) ==
    /\ applyPc = "loop"
    /\ jobsSeen < MaxJobs
    /\ botRunning
    /\ ~isLimitReached(checkAndResetDailyStats(dailyStats, today), dailyLimit)
    /\ ~j.alreadyApplied /\ j.hasEasyApply
    /\ jobsSeen' = jobsSeen + 1
    /\ \E head \in {applyToJobHead(Store(appliedJobs,
                                         checkAndResetDailyStats(dailyStats, today),
                                         sessionStats), j)} :
        IF head.reason = "try"
        THEN /\ applyPc' = "navigate"
             /\ job' = j
             /\ dailyStats' = head.st.daily
             /\ UNCHANGED <<appliedJobs, sessionStats, applyLast>>
        ELSE Ends(j, head.st, head.reason, FALSE, FALSE, FALSE, FALSE, FALSE)
    /\ UNCHANGED <<submitted, notApply>>

\* await this.page.goto(fullUrl); the check of this.page.url()
Navigate(outcome) ==
    /\ applyPc = "navigate"
    /\ CASE outcome = "ok" ->
                /\ applyPc' = "filters"
                /\ UNCHANGED <<appliedJobs, dailyStats, sessionStats, job, applyLast>>
         [] outcome = "wrong_url" ->
                Returns(TheStore, "navigation_failed", TRUE, FALSE)
         [] outcome = "throws" ->
                \E m \in ErrorMessages : Throws(m, FALSE, FALSE)
    /\ UNCHANGED <<jobsSeen, submitted, notApply>>

\* The bad job titles (on the title of the job card), then the requirements
\* match when config.jobFilter.completeRequirements is set (checkJobMatch can
\* throw), then the bad words, on the description getJobDescription() read
Filters(outcome) ==
    /\ applyPc = "filters"
    /\ CASE outcome = "ok" ->
                /\ ~badTitleFound(job.title)
                /\ \E description \in getJobDescription(job) : ~badWordFound(description)
                /\ applyPc' = "find"
                /\ UNCHANGED <<appliedJobs, dailyStats, sessionStats, job, applyLast>>
         [] outcome = "bad_job_title" ->
                /\ badTitleFound(job.title)
                /\ Returns(skipBoth(TheStore), outcome, TRUE, FALSE)
         [] outcome = "requirements_mismatch" ->
                /\ ~badTitleFound(job.title)
                /\ Returns(skipBoth(TheStore), outcome, TRUE, FALSE)
         [] outcome = "bad_word" ->
                /\ ~badTitleFound(job.title)
                /\ \E description \in getJobDescription(job) : badWordFound(description)
                /\ Returns(skipBoth(TheStore), outcome, TRUE, FALSE)
         [] outcome = "throws" ->
                /\ ~badTitleFound(job.title)
                /\ \E m \in ErrorMessages : Throws(m, TRUE, FALSE)
    /\ UNCHANGED <<jobsSeen, submitted, notApply>>

\* const easyApplyBtn = await this.findEasyApplyButton()
FindEasyApply(outcome) ==
    /\ applyPc = "find"
    /\ CASE outcome = "ok" ->
                /\ applyPc' = "click"
                /\ UNCHANGED <<appliedJobs, dailyStats, sessionStats, job, applyLast>>
         [] outcome = "none" ->
                Returns(skipSession(TheStore), "no_easy_apply", TRUE, FALSE)
         [] outcome = "throws" ->
                \E m \in ErrorMessages : Throws(m, TRUE, FALSE)
    /\ UNCHANGED <<jobsSeen, submitted, notApply>>

\* The click on the button and the check of the URL after it: on a
\* /learning/ or /premium/ page, await this.page.goBack(), which can throw
ClickEasyApply(outcome) ==
    /\ applyPc = "click"
    /\ CASE outcome = "ok" ->
                /\ applyPc' = "modal"
                /\ UNCHANGED <<appliedJobs, dailyStats, sessionStats, job, applyLast>>
         [] outcome = "wrong_page" ->
                Returns(TheStore, "clicked_wrong_button", TRUE, FALSE)
         [] outcome \in {"throws", "wrong_page_throws"} ->
                \E m \in ErrorMessages : Throws(m, TRUE, FALSE)
    /\ UNCHANGED <<jobsSeen, submitted, notApply>>

\* The wait for the dialog and the second click when it did not appear
WaitForModal(outcome) ==
    /\ applyPc = "modal"
    /\ CASE outcome = "ok" ->
                /\ applyPc' = "handle"
                /\ UNCHANGED <<appliedJobs, dailyStats, sessionStats, job, applyLast>>
         [] outcome = "throws" ->
                \E m \in ErrorMessages : Throws(m, TRUE, TRUE)
    /\ UNCHANGED <<jobsSeen, submitted, notApply>>

\* const applied = await this.handleEasyApplyModal(), and what follows it
HandleModal(outcome) ==
    /\ applyPc = "handle"
    /\ CASE outcome = "applied" ->
                /\ Ends(job, recordApplied(TheStore, job.jobId), "none", TRUE,
                        TRUE, TRUE, FALSE, FALSE)
                /\ submitted' = [submitted EXCEPT ![job.jobId] = @ + 1]
         [] outcome = "incomplete" ->
                /\ Returns(failBoth(TheStore), "application_incomplete", TRUE, TRUE)
                /\ UNCHANGED submitted
         [] outcome = "throws" ->
                /\ \E m \in ErrorMessages : Throws(m, TRUE, TRUE)
                /\ UNCHANGED submitted
    /\ UNCHANGED <<jobsSeen, notApply>>

\* run() leaves its loops: no job card is left, a stop or the limit
RunEnds ==
    /\ applyPc = "loop"
    /\ applyPc' = "ended"
    /\ UNCHANGED <<appliedJobs, dailyStats, sessionStats, job, applyLast, jobsSeen,
                   submitted, notApply>>

NextApply ==
    \/ \E j \in JobCards : SkipJobCard(j) \/ CallApplyToJob(j)
    \/ \E o \in {"ok", "wrong_url", "throws"} : Navigate(o)
    \/ \E o \in {"ok", "bad_job_title", "requirements_mismatch", "bad_word", "throws"} :
        Filters(o)
    \/ \E o \in {"ok", "none", "throws"} : FindEasyApply(o)
    \/ \E o \in {"ok", "wrong_page", "wrong_page_throws", "throws"} : ClickEasyApply(o)
    \/ \E o \in {"ok", "throws"} : WaitForModal(o)
    \/ \E o \in {"applied", "incomplete", "throws"} : HandleModal(o)
    \/ RunEnds

SpecApply == InitApply /\ [][NextApply]_vars

-----------------------------------------------------------------------------
(* stateManager.js on its own: the records of a process that runs over      *)
(* midnight.  The callers are applyToJob (addAppliedJob, incrementSkipped,  *)
(* incrementFailed) and the polls of run() (isLimitReached); an attempt     *)
(* takes minutes, so the date can change between any two of the calls       *)

\* The records the model makes in one behaviour
MaxRecords == 3

Recorded(l) == l.applied + l.skipped + l.failed

RECURSIVE RecordedUpTo(_)
RecordedUpTo(k) == IF k = 0 THEN 0 ELSE Recorded(ledger[k]) + RecordedUpTo(k - 1)

notDaily == <<aiVars, fillVars, drvVars, runVars, dailyLimit, presetLast,
              sessionStats, applyPc, job, applyLast, jobsSeen, submitted, schedVars,
              runLoop>>

InitDaily ==
    /\ appliedJobs = NoAppliedJobs
    /\ dailyStats = FreshDailyStats(Today)
    /\ dailyLimit = MaxRecords
    /\ today = Today
    /\ ledger = NoLedger
    /\ ParkedSched
    /\ runLoop = NoLoop
    /\ sessionStats = NewSessionStats
    /\ applyPc = "idle"
    /\ job = NoJob
    /\ applyLast = NoApply
    /\ jobsSeen = 0
    /\ submitted = [j \in JobIds |-> 0]
    /\ presetLast = NoPreset
    /\ ParkedRun
    /\ ParkedDrv
    /\ activeProvider = "none"
    /\ geminiAvailable = FALSE
    /\ openrouterAvailable = FALSE
    /\ geminiModel = FALSE
    /\ openrouterClient = FALSE
    /\ aiKeys = [gemini |-> FALSE, openrouter |-> FALSE]
    /\ aiLast = NoCall
    /\ rateLimited = FALSE
    /\ config = ConfigDefaults
    /\ fillPc = "idle"
    /\ fillLeft = 0
    /\ fillCur = NoItem
    /\ fillLast = NoFill

\* The clock passes midnight (UTC, the zone of toISOString)
Midnight ==
    /\ DayNumber(today) < Len(Days)
    /\ today' = Days[DayNumber(today) + 1]
    /\ UNCHANGED <<appliedJobs, dailyStats, ledger, notDaily>>

\* stateManager.addAppliedJob(jobId, details), for a job id hasApplied() denied
AddAppliedJob(jobId) ==
    /\ RecordedUpTo(Len(Days)) < MaxRecords
    /\ ~hasApplied(appliedJobs.jobs, jobId)
    /\ \E st \in {addAppliedJob(TheStore, jobId)} :
            /\ appliedJobs' = [jobs |-> st.jobs, count |-> st.count]
            /\ dailyStats' = st.daily
    /\ ledger' = [ledger EXCEPT ![DayNumber(today)].applied = @ + 1]
    /\ UNCHANGED <<today, notDaily>>

\* stateManager.incrementSkipped()
IncrementSkipped ==
    /\ RecordedUpTo(Len(Days)) < MaxRecords
    /\ dailyStats' = incrementSkipped(dailyStats)
    /\ ledger' = [ledger EXCEPT ![DayNumber(today)].skipped = @ + 1]
    /\ UNCHANGED <<appliedJobs, today, notDaily>>

\* stateManager.incrementFailed()
IncrementFailed ==
    /\ RecordedUpTo(Len(Days)) < MaxRecords
    /\ dailyStats' = incrementFailed(dailyStats)
    /\ ledger' = [ledger EXCEPT ![DayNumber(today)].failed = @ + 1]
    /\ UNCHANGED <<appliedJobs, today, notDaily>>

\* stateManager.isLimitReached() / getTodayCount() / getRemainingToday():
\* this.checkAndResetDailyStats() before the count is read
IsLimitReached ==
    /\ dailyStats' = checkAndResetDailyStats(dailyStats, today)
    /\ UNCHANGED <<appliedJobs, today, ledger, notDaily>>

NextDaily ==
    \/ Midnight
    \/ \E jobId \in JobIds : AddAppliedJob(jobId)
    \/ IncrementSkipped
    \/ IncrementFailed
    \/ IsLimitReached

SpecDaily == InitDaily /\ [][NextDaily]_vars

-----------------------------------------------------------------------------
(* schedulerService.js: the auto-apply timer of one process, its callback   *)
(* and the dashboard's calls of toggleAutoApply / updateSchedulerSettings   *)

\* startHour + Math.floor(Math.random() * (endHour - startHour))
RandomHours(startHour, endHour) ==
    IF endHour > startHour THEN startHour..(endHour - 1) ELSE endHour..startHour

\* new Date(year, month, date, randomHour, randomMinute, randomSecond)
RandomTimes(day, startHour, endHour) ==
    {TicksOf(day, h) + m : h \in RandomHours(startHour, endHour), m \in 0..1}

Scheduled(times, date) == {[time |-> t, lastScheduledDate |-> date] : t \in times}

\* getNextScheduledTimeTomorrow(startHour, endHour)
getNextScheduledTimeTomorrow(t, startHour, endHour) ==
    Scheduled(RandomTimes(DayOf(t) + 1, startHour, endHour), DayOf(t) + 1)

\* getNextScheduledTime(startHour, endHour) at the time t: the times it can
\* return, each with the lastScheduledDate it leaves
getNextScheduledTime(sch, t, startHour, endHour) ==
    IF sch.lastScheduledDate = DayOf(t) /\ sch.scheduledTime # NoTime
    THEN IF t >= sch.scheduledTime
         THEN getNextScheduledTimeTomorrow(t, startHour, endHour)
         ELSE Scheduled({sch.scheduledTime}, sch.lastScheduledDate)
    ELSE IF getHours(t) < startHour
    THEN Scheduled(RandomTimes(DayOf(t), startHour, endHour), DayOf(t))
    ELSE IF getHours(t) >= startHour /\ getHours(t) < endHour
    THEN IF getHours(t) + 1 < endHour
         THEN Scheduled(RandomTimes(DayOf(t), getHours(t) + 1, endHour), DayOf(t))
         ELSE Scheduled({t + 1}, DayOf(t))
    ELSE getNextScheduledTimeTomorrow(t, startHour, endHour)

\* The scheduler and the timers of the process
Sched(sch, pending) == [scheduler |-> sch, timers |-> pending]

\* clearTimeout(handle): a fired or cleared handle is ignored
clearTimeout(pending, handle) == {timer \in pending : timer.id # handle}

\* The handle setTimeout returns: one that no pending timer has
NewTimer(pending) ==
    CHOOSE id \in 1..(Cardinality(pending) + 1) : \A timer \in pending : timer.id # id

\* schedulerTimeout = setTimeout(callback, delay)
setTimeout(s, at) ==
    [scheduler |-> [s.scheduler EXCEPT !.schedulerTimeout = NewTimer(s.timers)],
     timers |-> s.timers \cup {[id |-> NewTimer(s.timers), at |-> at]}]

\* scheduleNextRun without its "Clear any existing timeout"
clearExisting_kept(s) == s

\* if (schedulerTimeout) { clearTimeout(schedulerTimeout); schedulerTimeout = null }

clearExisting(s) ==
    IF s.scheduler.schedulerTimeout # NoTimer
    THEN [scheduler |-> [s.scheduler EXCEPT !.schedulerTimeout = NoTimer],
          timers |-> clearTimeout(s.timers, s.scheduler.schedulerTimeout)]
    ELSE s

\* scheduleNextRun() at the time t with the settings cfg: what it can
\* leave, for every value Math.random() can give
RECURSIVE scheduleNextRun(_, _, _)
scheduleNextRun(s, cfg, t) ==
    IF ~cfg.autoApplyEnabled
    THEN {s}
    ELSE UNION {
            IF next.time - t <= 0
            THEN scheduleNextRun(
                    [clearExisting(s) EXCEPT !.scheduler.scheduledTime = next.time,
                                             !.scheduler.lastScheduledDate = NoDate],
                    cfg, t)
            ELSE {setTimeout(
                    [clearExisting(s) EXCEPT !.scheduler.scheduledTime = next.time,
                                             !.scheduler.lastScheduledDate =
                                                    next.lastScheduledDate],
                    next.time)}
            : next \in getNextScheduledTime(clearExisting(s).scheduler, t,
                                           cfg.autoApplyStartHour, cfg.autoApplyEndHour)}

\* stopScheduler()
stopScheduler(s) ==
    IF s.scheduler.schedulerTimeout # NoTimer
    THEN [scheduler |-> NoScheduler,
          timers |-> clearTimeout(s.timers, s.scheduler.schedulerTimeout)]
    ELSE s

TheSched == Sched(scheduler, timers)

\* The module state a call leaves
Leaves(s) ==
    /\ scheduler' = s.scheduler
    /\ timers' = s.timers

notSched == <<aiVars, fillVars, drvVars, runVars, applyVars, presetLast, dailyLimit, ledger,
              runLoop>>

InitSched ==
    /\ ParkedSched
    /\ today = Today
    /\ ledger = NoLedger
    /\ runLoop = NoLoop
    /\ dailyStats = FreshDailyStats(Today)
    /\ dailyLimit = 1
    /\ ParkedApply
    /\ presetLast = NoPreset
    /\ ParkedRun
    /\ ParkedDrv
    /\ activeProvider = "none"
    /\ geminiAvailable = FALSE
    /\ openrouterAvailable = FALSE
    /\ geminiModel = FALSE
    /\ openrouterClient = FALSE
    /\ aiKeys = [gemini |-> FALSE, openrouter |-> FALSE]
    /\ aiLast = NoCall
    /\ rateLimited = FALSE
    /\ config = ConfigDefaults
    /\ fillPc = "idle"
    /\ fillLeft = 0
    /\ fillCur = NoItem
    /\ fillLast = NoFill

\* Half an hour passes; a timer fires when its time has come, not later
Tick ==
    /\ DayOf(now + 1) <= Len(Days)
    /\ \A timer \in timers : timer.at > now
    /\ now' = now + 1
    /\ today' = Days[DayOf(now + 1)]
    /\ UNCHANGED <<settings, scheduler, timers, triggered, dailyStats, notSched>>

\* toggleAutoApply(enabled): the setting is saved; startScheduler() or
\* stopScheduler()
ToggleAutoApply(enabled) ==
    /\ settings' = [settings EXCEPT !.autoApplyEnabled = enabled]
    /\ IF enabled
       THEN \E s \in scheduleNextRun(TheSched, settings', now) : Leaves(s)
       ELSE Leaves(stopScheduler(TheSched))
    /\ UNCHANGED <<now, today, triggered, dailyStats, notSched>>

\* updateSchedulerSettings(newSettings), the hours left as they are:
\* newSettings.autoApplyEnabled is undefined (kept), true or false
UpdateSchedulerSettings(enabled) ==
    /\ settings' = [settings EXCEPT !.autoApplyEnabled = enabled]
    /\ IF enabled
       THEN \E s \in scheduleNextRun(
                        [TheSched EXCEPT !.scheduler.lastScheduledDate = NoDate],
                        settings', now) : Leaves(s)
       ELSE Leaves(stopScheduler(TheSched))
    /\ UNCHANGED <<now, today, triggered, dailyStats, notSched>>

\* The trigger the callback of a timer makes
Trigger(running) ==
    [running |-> running, day |-> DayOf(now),
     again |-> triggered.day = DayOf(now), enabled |-> settings.autoApplyEnabled]

\* The callback of setTimeout, up to its await: on isLimitReached()
\* lastScheduledDate = null; scheduleNextRun(); else await startBotCallback()
TimerFires(timer) ==
    /\ timer \in timers
    /\ timer.at <= now
    /\ dailyStats' = checkAndResetDailyStats(dailyStats, today)
    /\ IF isLimitReached(checkAndResetDailyStats(dailyStats, today), dailyLimit)
       THEN /\ \E s \in scheduleNextRun(
                            [scheduler |-> [scheduler EXCEPT !.lastScheduledDate = NoDate],
                             timers |-> timers \ {timer}],
                            settings, now) : Leaves(s)
            /\ UNCHANGED triggered
       ELSE /\ timers' = timers \ {timer}
            /\ triggered' = Trigger(triggered.running + 1)
            /\ UNCHANGED scheduler
    /\ UNCHANGED <<now, today, settings, notSched>>

\* startBotCallback() has settled (the run made applied applications, or it
\* threw): lastScheduledDate = null; scheduleNextRun()
CallbackResumes(applied) ==
    /\ triggered.running > 0
    /\ triggered' = [triggered EXCEPT !.running = @ - 1]
    /\ dailyStats.applied + applied <= dailyLimit
    /\ dailyStats' = [dailyStats EXCEPT !.applied = @ + applied]
    /\ \E s \in scheduleNextRun(
                    [TheSched EXCEPT !.scheduler.lastScheduledDate = NoDate],
                    settings, now) : Leaves(s)
    /\ UNCHANGED <<now, today, settings, notSched>>

NextSched ==
    \/ Tick
    \/ \E enabled \in BOOLEAN : ToggleAutoApply(enabled)
    \/ \E enabled \in BOOLEAN : UpdateSchedulerSettings(enabled)
    \/ \E timer \in timers : TimerFires(timer)
    \/ \E applied \in 0..1 : CallbackResumes(applied)

SpecSched == InitSched /\ [][NextSched]_vars

-----------------------------------------------------------------------------
(* LinkedInBot.js run(): the loop over the search terms, the loop over the  *)
(* result pages of a term and the loop over the job cards of a page         *)

\* The search terms of config.search.terms, the job cards of a result page
\* and the values of config.search.switchAfter the model tries
MaxTerms == 2

MaxCards == 2

MaxSwitchAfter == 2

\* if (page >= 10) break
maxPages == 10

\* What shouldBotRun() and stateManager.isLimitReached() answer at a poll
Polls == [stop : BOOLEAN, limit : BOOLEAN]

Breaks(poll) == poll.stop \/ poll.limit

\* The test on termApplications that never ends a term
switchReached_never(termApplications, switchAfter) == FALSE

\* termApplications >= config.search.switchAfter, the negation of the while
\* condition
switchReached(termApplications, switchAfter) == termApplications >= switchAfter

\* The loop over the job cards is left: page++; if (page >= 10) break
EndPage(loop) ==
    [loop EXCEPT !.page = @ + 1, !.cardsLeft = 0,
                 !.pc = IF loop.page + 1 >= maxPages THEN "terms" ELSE "while"]

notLoop == <<aiVars, fillVars, drvVars, runVars, applyVars, presetLast, dailyLimit,
             dailyStats, clockVars, schedVars>>

InitLoop ==
    /\ runLoop \in {[NoLoop EXCEPT !.pc = "terms", !.terms = n, !.switchAfter = limit] :
                        n \in 0..MaxTerms, limit \in 1..MaxSwitchAfter}
    /\ today = Today
    /\ ledger = NoLedger
    /\ ParkedSched
    /\ dailyStats = FreshDailyStats(Today)
    /\ dailyLimit = 1
    /\ ParkedApply
    /\ presetLast = NoPreset
    /\ ParkedRun
    /\ ParkedDrv
    /\ activeProvider = "none"
    /\ geminiAvailable = FALSE
    /\ openrouterAvailable = FALSE
    /\ geminiModel = FALSE
    /\ openrouterClient = FALSE
    /\ aiKeys = [gemini |-> FALSE, openrouter |-> FALSE]
    /\ aiLast = NoCall
    /\ rateLimited = FALSE
    /\ config = ConfigDefaults
    /\ fillPc = "idle"
    /\ fillLeft = 0
    /\ fillCur = NoItem
    /\ fillLast = NoFill

\* for (const term of searchTerms): no term is left, or a poll breaks the
\* loop (return this.sessionStats), or page = 0, termApplications = 0
NextTerm(poll) ==
    /\ runLoop.pc = "terms"
    /\ runLoop' =
            IF runLoop.terms = 0 \/ Breaks(poll)
            THEN [runLoop EXCEPT !.pc = "returned"]
            ELSE [runLoop EXCEPT !.pc = "while", !.terms = @ - 1, !.page = 0,
                                 !.termApplications = 0, !.cardsLeft = 0,
                                 !.fetched = 0, !.emptied = FALSE]
    /\ UNCHANGED notLoop

\* One turn of while (termApplications < config.search.switchAfter) up to
\* the cards: the polls, searchJobs(term, page), getJobCards() returning
\* cards job cards, if (jobs.length === 0) break
WhileTurn(poll, cards) ==
    /\ runLoop.pc = "while"
    /\ runLoop' =
            IF switchReached(runLoop.termApplications, runLoop.switchAfter) \/ Breaks(poll)
            THEN [runLoop EXCEPT !.pc = "terms"]
            ELSE IF cards = 0
            THEN [runLoop EXCEPT !.pc = "terms", !.fetched = @ + 1, !.emptied = TRUE]
            ELSE [runLoop EXCEPT !.pc = "jobs", !.fetched = @ + 1, !.cardsLeft = cards]
    /\ UNCHANGED notLoop

\* searchJobs or getJobCards throws: finally { await this.close() }, and
\* the exception leaves run()
SearchThrows ==
    /\ runLoop.pc = "while"
    /\ ~switchReached(runLoop.termApplications, runLoop.switchAfter)
    /\ runLoop' = [runLoop EXCEPT !.pc = "returned", !.threw = TRUE]
    /\ UNCHANGED notLoop

\* for (const job of jobs), one card: the three breaks, the two continues,
\* const result = await this.applyToJob(job); if (result.success)
\* termApplications++; after the last card page++ and the page cap
VisitJob(poll, outcome) ==
    /\ runLoop.pc = "jobs"
    /\ runLoop' =
            IF Breaks(poll) \/ switchReached(runLoop.termApplications, runLoop.switchAfter)
            THEN EndPage(runLoop)
            ELSE IF runLoop.cardsLeft = 1
            THEN EndPage([runLoop EXCEPT !.termApplications =
                                            IF outcome = "success" THEN @ + 1 ELSE @])
            ELSE [runLoop EXCEPT !.cardsLeft = @ - 1,
                                 !.termApplications =
                                        IF outcome = "success" THEN @ + 1 ELSE @]
    /\ UNCHANGED notLoop

NextLoop ==
    \/ \E poll \in Polls : NextTerm(poll)
    \/ \E poll \in Polls, cards \in 0..MaxCards : WhileTurn(poll, cards)
    \/ SearchThrows
    \/ \E poll \in Polls, outcome \in {"continue", "success", "no_success"} :
            VisitJob(poll, outcome)

\* Every await of run() settles: the loop takes its next step
SpecLoop == InitLoop /\ [][NextLoop]_vars /\ WF_vars(NextLoop)

-----------------------------------------------------------------------------
(* Claims about fillFormFields, checked under SpecFill *)

\* A form group whose field holds a value: a text input or textarea with a
\* non-empty value, a select on an option with a value (the placeholder
\* option has none), a radio group with a checked radio
HoldsValue(g) ==
    CASE g.kind \in {"text", "textarea"} -> g.value # ""
      [] g.kind = "select" ->
            g.selected \in 1..Len(g.options) /\ g.options[g.selected].value # ""
      [] g.kind = "radio" -> \E i \in 1..Len(g.radios) : g.radios[i]
      [] OTHER -> FALSE

\* C14: a form group whose field already holds a value is left as it is by
\* the loop body of fillFormFields: nothing is typed, selected or clicked and
\* no answer is resolved for it (no preset lookup, no provider request).
Cex_C14 ==
    (fillLast.what = "group" /\ HoldsValue(fillLast.pre)) =>
        /\ ~fillLast.wrote
        /\ fillLast.post = fillLast.pre
        /\ fillLast.invoked = <<>>
        /\ fillLast.preset = Unasked /\ fillLast.answer = Unasked

\* C20: an exception in the body of one form group (label extraction,
\* classification, the handler's write) never leaves fillFormFields: it is
\* caught, and the loop goes on with the form groups that remain.
Thm_C20 ==
    /\ [](fillLast.what = "raised" => fillLast.by # "field")
    /\ [][(fillPc = "fields" /\ fillLast'.what = "error") =>
            /\ fillLeft' = fillLeft - 1
            /\ fillPc' = IF fillLeft > 1 THEN "fields" ELSE "checkboxes?"
            /\ fillCur' = NoItem]_vars

\* The handler of the first of two form groups threw on its write, after a
\* provider request, and the loop stands at the second group
Wit_C20 ==
    /\ fillLast.what = "error" /\ fillLast.stage = "write"
    /\ fillLast.invoked # <<>>
    /\ fillPc = "fields" /\ fillLeft = 1 /\ fillCur = NoItem

\* The options of a select whose text equals the answer, case ignored, and
\* that hold a value
ExactOptions(g, answer) ==
    {i \in 1..Len(g.options) :
        /\ toLowerCase(g.options[i].text) = toLowerCase(answer)
        /\ g.options[i].value # ""}

\* C32: when the answer handleDropdown resolved equals, case ignored, the
\* text of an option, that option is the one selected, also when an earlier
\* option contains the answer or is contained in it.
Cex_C32 ==
    (/\ FilledGroup
     /\ fillLast.pre.kind = "select"
     /\ fillLast.answer # Unasked
     /\ Truthy(fillLast.answer)
     /\ ExactOptions(fillLast.pre, fillLast.answer) # {})
        => fillLast.post.selected \in ExactOptions(fillLast.pre, fillLast.answer)

\* The radios of a group that are checked
CheckedRadios(g) == {i \in 1..Len(g.radios) : g.radios[i]}

\* The radios whose label matches the answer as handleRadioButtons matches
\* them: one of the two texts contains the other, lower-cased
MatchingRadios(g, answer) ==
    {i \in 1..Len(g.radios) :
        \/ includes(toLowerCase(g.radioLabels[i]), toLowerCase(answer))
        \/ includes(toLowerCase(answer), toLowerCase(g.radioLabels[i]))}

\* C33: a radio group with at least one radio and none checked has exactly
\* one radio checked after handleRadioButtons: the first whose label matches
\* the answer, the first of the group when there is no answer or no label
\* matches.
Thm_C33 ==
    (/\ FilledGroup
     /\ fillLast.pre.kind = "radio"
     /\ Len(fillLast.pre.radios) > 0
     /\ CheckedRadios(fillLast.pre) = {})
        => /\ fillLast.wrote
           /\ CheckedRadios(fillLast.post) =
                IF Truthy(fillLast.answer)
                       /\ MatchingRadios(fillLast.pre, fillLast.answer) # {}
                THEN {FirstOf(MatchingRadios(fillLast.pre, fillLast.answer))}
                ELSE {1}

\* The preset answer "No" matched the second radio
Wit_C33 ==
    /\ FilledGroup
    /\ fillLast.pre = RadioGroup("Are you currently employed?", <<"Yes", "No">>,
                                 <<FALSE, FALSE>>)
    /\ fillLast.answer = "No"
    /\ fillLast.post.radios = <<FALSE, TRUE>>

\* No answer (the request failed): the first radio by default
Wit_C33_default ==
    /\ FilledGroup
    /\ fillLast.pre.kind = "radio"
    /\ fillLast.answer = Null
    /\ fillLast.invoked # <<>>
    /\ fillLast.post.radios = <<TRUE, FALSE>>

-----------------------------------------------------------------------------
(* Claims about the error handling of aiService.js, checked under SpecAI *)

\* Every provider request the last call made has failed
AllRequestsFailed(a) ==
    /\ a.invoked # <<>>
    /\ \A k \in 1..Len(a.invoked) : a.outs[k].kind # "ok"

\* C15: answerQuestion and answerCheckboxQuestion never throw; a call whose
\* provider requests all failed (rate-limit or other error, on one provider
\* or on both in the same call) returns null from answerQuestion and "false"
\* from answerCheckboxQuestion.
Thm_C15 ==
    aiLast.op \in {"answerQuestion", "answerCheckboxQuestion"} =>
        /\ ~aiLast.threw
        /\ AllRequestsFailed(aiLast) =>
                aiLast.value = IF aiLast.op = "answerQuestion" THEN Null ELSE "false"

\* Both providers were asked in one answerQuestion call and both failed
Wit_C15 ==
    /\ aiLast.op = "answerQuestion"
    /\ aiLast.invoked = <<"gemini", "openrouter">>
    /\ AllRequestsFailed(aiLast)
    /\ aiLast.value = Null

\* A rate-limit error of the only provider in an answerCheckboxQuestion call
Wit_C15_checkbox ==
    /\ aiLast.op = "answerCheckboxQuestion"
    /\ Len(aiLast.invoked) = 1 /\ aiLast.outs[1].kind = "ratelimit"
    /\ aiLast.value = "false"

\* The available flag of a provider in a provider state
Available(st, provider) ==
    IF provider = "gemini" THEN st.geminiAvailable ELSE st.openrouterAvailable

\* C28: one answerQuestion / answerCheckboxQuestion call makes at most two
\* provider requests: the first to the provider active at the call, a second
\* only after the first has failed, to the other provider, which was
\* available; no provider is asked twice in one call.
Thm_C28 ==
    IsResolve(aiLast.op) =>
        /\ Len(aiLast.invoked) <= 2
        /\ aiLast.invoked # <<>> => aiLast.invoked[1] = aiLast.pre.activeProvider
        /\ Len(aiLast.invoked) = 2 =>
                /\ aiLast.invoked[2] # aiLast.invoked[1]
                /\ aiLast.outs[1].kind # "ok"
                /\ Available(aiLast.pre, aiLast.invoked[2])

\* The active backup failed and the primary, asked second, answered "42"
Wit_C28 ==
    /\ aiLast.op = "answerQuestion"
    /\ aiLast.invoked = <<"openrouter", "gemini">>
    /\ aiLast.value = "42"

\* A request of the last call failed, and none failed with a rate-limit error
OnlyPlainFailures(a) ==
    /\ \E k \in 1..Len(a.invoked) : a.outs[k].kind = "error"
    /\ \A k \in 1..Len(a.invoked) : a.outs[k].kind # "ratelimit"

\* C29: a call whose provider failures are not rate-limit / quota errors
\* leaves the provider state (active provider, available flags, handles) as
\* it was before the call.
Cex_C29 ==
    (IsResolve(aiLast.op) /\ OnlyPlainFailures(aiLast)) => AIState = aiLast.pre

\* C30: the active provider, when there is one, is a provider whose
\* available flag is true: getAIStatus reports no provider as active and
\* unavailable.
Cex_C30 ==
    /\ getAIStatus(AIState).gemini.active => getAIStatus(AIState).gemini.available
    /\ getAIStatus(AIState).openrouter.active => getAIStatus(AIState).openrouter.available

-----------------------------------------------------------------------------
(* Claims about handleEasyApplyModal, checked under SpecDriver *)

Returned == pc = "done"

\* C1: handleEasyApplyModal always terminates within its step budget: the
\* step counter never exceeds maxSteps (at most 10 iterations whatever the
\* page does), a call that has started returns, and a call in which no
\* iteration ended in success returns false; it returns by exhaustion only
\* after the 10th iteration, closing the modal instead of retrying.
\* The steps the handler has left at most: the iterations the budget has
\* left, and within the iteration the calls that follow the current one
\* (each tryClick* loop tries the candidates it has left)
MaxCandidates == 9
StepsOfIteration == 3 * MaxCandidates + 12
StepsLeft ==
    IF pc \in {"idle", "done"} THEN 0
    ELSE (maxSteps - step) * StepsOfIteration + Len(cands)
            + CASE pc = "loop"        -> 1
                [] pc = "stuck"       -> 2
                [] pc = "nextClick"   -> 3
                [] pc = "next"        -> MaxCandidates + 4
                [] pc = "reviewClick" -> MaxCandidates + 5
                [] pc = "review"      -> 2 * MaxCandidates + 6
                [] pc = "submitted"   -> 2 * MaxCandidates + 7
                [] pc = "submitClick" -> 2 * MaxCandidates + 8
                [] pc = "submit"      -> 3 * MaxCandidates + 9
                [] pc = "fill"        -> 3 * MaxCandidates + 10
                [] pc \in {"check", "gone"} -> 3 * MaxCandidates + 11
                [] pc = "detect"      -> 3 * MaxCandidates + 12

Thm_C1 ==
    /\ [](/\ step \in 0..maxSteps
          /\ StepsLeft \in 0..(maxSteps * StepsOfIteration + 1)
          /\ Returned => /\ result = (exit = "success")
                         /\ exit \in {"success", "gone", "exhausted"}
                         /\ exit = "exhausted" => step = maxSteps)
    /\ [][pc # "idle" => /\ StepsLeft' <= StepsLeft
                         /\ HandlerStep => StepsLeft' < StepsLeft]_vars

Wit_C1 == Returned /\ exit = "exhausted" /\ step = maxSteps /\ ~result

\* C2: for a dialog of exactly N steps (first N-1 steps offer an enabled
\* Next or Review button, the Nth an enabled "Submit application" button,
\* the click on Submit yields a page containing "application submitted"),
\* handleEasyApplyModal returns true after exactly N advance clicks.
Cex_C2 == (Returned /\ scriptN > 0) => (result /\ clicks = scriptN)

\* The conforming run: three steps, three advance clicks, success
Wit_C2_conforming == Returned /\ scriptN = 3 /\ result /\ clicks = 3 /\ step = 3

OnlyWidgets(doc) ==
    /\ doc.dialogs # <<>>
    /\ \A k \in 1..Len(doc.dialogs) : isMessagingWidget(textContent(doc.dialogs[k]))

\* C9: a container whose text contains "Compose message" or "Open Emoji
\* Keyboard" is never treated as the application dialog: when every
\* container of the page is one, the detector reports not found (the handler
\* goes to "modal not found", never on to the form), even when its buttons
\* match the vocabulary; and no advance click is ever dispatched to a button
\* of such a container.
Thm_C9 ==
    [][/\ (pc = "detect" /\ OnlyWidgets(dom)) => pc' \in {"detect", "gone"}
       /\ \A i \in 1..Len(clicked') :
            clicked'[i].kind = "advance" => ~clicked'[i].inWidget]_vars

\* An advance click dispatched on a page that shows the messaging overlay
\* before the application dialog
Wit_C9 ==
    /\ dom = Page(<<ComposeWidget, ContactStep>>)
    /\ clicked = <<[kind |-> "advance", dialog |-> 2, text |-> "Next", inWidget |-> FALSE]>>

\* The detector has reported not found on a page whose only container is the
\* overlay with a Next button
Wit_C9_notPresent == pc = "gone" /\ dom = Page(<<ComposeWidget>>)

\* C21: after every advance click the handler runs checkApplicationSuccess
\* before it fills, scans or clicks again and before it returns: while an
\* advance click is unchecked the handler is at the loop head, at the
\* detector or at a success check.
Cex_C21 ==
    seen.unchecked => pc \in {"loop", "detect", "gone", "check", "submitted"}

ClickPcs == {"submitClick", "reviewClick", "nextClick"}

\* The step dispatches an advance click
AdvanceClick == pc \in ClickPcs /\ clicked' # clicked /\ Len(clicked') = 1

\* C22: a step dispatches at most one advance click; the button clicked is
\* enabled; Review is clicked only when the dialog offers no enabled Submit
\* button, Next only when it offers neither an enabled Submit nor an enabled
\* Review button.
Cex_C22 ==
    /\ [](pc \in ClickPcs => clicked = <<>>)
    /\ [][AdvanceClick =>
            /\ ~DialogAt(dom, clicked'[1].dialog).buttons[Head(cands)].disabled
            /\ pc # "submitClick" => submitCandidates(modalButtons(dom)) = <<>>
            /\ pc = "nextClick" => reviewCandidates(modalButtons(dom)) = <<>>]_vars

\* C23: when the detector finds no dialog the handler makes one check for
\* success and returns its verdict in the same step: true on success, false
\* otherwise, with no field filled, no button clicked on the failure path and
\* the step counter where it was.
Thm_C23 ==
    /\ [](pc = "gone" => /\ seen.detect = 0 /\ seen.fill = 0
                         /\ clicked = <<>> /\ cands = <<>>)
    /\ [][/\ (pc = "detect" /\ pc' # "detect") => (pc' = "gone") = ~findModal(dom).found
          /\ (pc = "gone" /\ pc' # "gone") =>
                /\ Returned'
                /\ result' = checkApplicationSuccess(dom).success
                /\ exit' = IF result' THEN "success" ELSE "gone"
                /\ step' = step
                /\ seen'.fill = 0
                /\ ~result' => clicked' = <<>>]_vars

\* The dialog was gone at the second step: false, eight steps unused
Wit_C23 == Returned /\ exit = "gone" /\ ~result /\ step = 2 /\ clicked = <<>>

\* C24: a step in which no tryClick* found a button to click does not end
\* the call: the handler logs the buttons and goes back to the loop head
\* with the step counted, the next iteration detects, checks and fills
\* again, and the loop head returns by exhaustion exactly when the counter
\* has reached maxSteps.
Thm_C24 ==
    /\ [](pc = "stuck" => clicked = <<>> /\ step \in 1..maxSteps /\ ~Returned)
    /\ [][/\ (pc = "nextClick" /\ cands = <<>> /\ pc' # pc) => pc' = "stuck"
          /\ (pc = "stuck" /\ pc' # pc) => pc' = "loop" /\ UNCHANGED <<step, result, exit>>
          /\ (pc = "loop" /\ pc' # pc) =>
                IF step < maxSteps
                THEN pc' = "detect" /\ step' = step + 1
                ELSE Returned' /\ exit' = "exhausted" /\ ~result'
          /\ (pc = "check" /\ pc' # pc) => pc' = "fill" \/ (Returned' /\ result')
          /\ (pc = "fill" /\ pc' # pc) => pc' = "submit"]_vars

\* The tenth step found the Next button disabled, and the call has returned
\* by exhaustion
Wit_C24 ==
    /\ Returned /\ exit = "exhausted" /\ step = maxSteps
    /\ dom = Page(<<BlockedStep>>) /\ ~seen.unchecked

\* The last step is stuck
Wit_C24_stuck == pc = "stuck" /\ step = maxSteps /\ dom = Page(<<BlockedStep>>)

\* C25: the dialog fillFormFields and handleCheckboxes work in is the dialog
\* the detector selects in the document they see.
Cex_C25 ==
    [][(pc = "fill" /\ pc' = "submit") => seen'.fill = modalIndex(dom)]_vars

\* C26: the button clickModalButtonByIndex clicks is the button the scan
\* matched: the button at the scanned position of the scanned dialog.
Cex_C26 ==
    [][AdvanceClick => DialogAt(dom, clicked'[1].dialog) = seen.scan]_vars

-----------------------------------------------------------------------------
(* Claims about the modal detection, checked under SpecDetect *)

\* The controlled action vocabulary
ActionVocabulary == {"next", "continue", "review", "submit", "dismiss"}

\* Submit over Review over Next
Richness(dialog) ==
    LET rank(texts) ==
            IF SomeIncludes(texts, {"submit"}) THEN 3
            ELSE IF SomeIncludes(texts, {"review"}) THEN 2
            ELSE IF SomeIncludes(texts, {"next", "continue"}) THEN 1
            ELSE 0
    IN  rank(buttonTexts(dialog))

\* C27: the dialog the detector selects has a button of the action
\* vocabulary, and no other dialog of the document that the detector would
\* accept has a richer action-button set.
Cex_C27 ==
    pc = "found" =>
        /\ SomeIncludes(buttonTexts(DialogAt(dom, seen.detect)), ActionVocabulary)
        /\ \A k \in 1..Len(dom.dialogs) :
                modalMethod(dom.dialogs[k]) # "none" =>
                    Richness(dom.dialogs[k]) <= Richness(DialogAt(dom, seen.detect))

-----------------------------------------------------------------------------
(* Claims about runBot and the dashboard, checked under SpecRun *)

InProgress == {f \in Flows : flows[f].at \in {"running", "applying"}}

\* C10: at most one bot run, and so at most one application attempt, is in
\* progress at any time, under every interleaving of dashboard start and
\* stop requests, completions of a run and retry delays.
Cex_C10 == Cardinality(InProgress) <= 1

\* C11: a stop request never ends or alters an applyToJob in progress (the
\* run leaves it only when applyToJob returns), and a run that was inside
\* bot.run() when the stop request was served starts no applyToJob after it.
Cex_C11 ==
    [][\A f \in Flows :
        /\ flows[f].at = "applying" => flows'[f].at \in {"applying", "running"}
        /\ (flows[f].at = "running" /\ flows[f].stopAsked)
                => flows'[f].at # "applying"]_vars

\* C13: no applyToJob starts while the limit is reached, and the applied
\* count of the day never exceeds the daily limit.
Cex_C13 ==
    /\ [][\A f \in Flows : (flows[f].at = "running" /\ flows'[f].at = "applying")
                => ~isLimitReached(dailyStats, dailyLimit)]_vars
    /\ [](dailyStats.applied <= dailyLimit)


-----------------------------------------------------------------------------
(* Claims about applyToJob and the job loop of run(), checked under SpecApply *)

\* An applyToJob has ended
Ended == applyLast.jobId # "none"

\* By how much the applyToJob that ended last moved a counter, in the
\* session stats and in the daily stats
SkippedBy(a) ==
    <<a.post.session.skipped - a.pre.session.skipped,
      a.post.daily.skipped - a.pre.daily.skipped>>

FailedBy(a) ==
    <<a.post.session.failed - a.pre.session.failed,
      a.post.daily.failed - a.pre.daily.failed>>

AppliedBy(a) ==
    <<a.post.session.applied - a.pre.session.applied,
      a.post.daily.applied - a.pre.daily.applied>>

\* C12: applyToJob on a job id the state manager holds as applied returns
\* before the navigation to the job and before the dialog is opened, adds one
\* to the skipped counters and leaves the failed and applied counters and the
\* applied jobs as they were; a successful application records its job id,
\* so no job id is submitted twice by calls in sequence.
Thm_C12 ==
    /\ (Ended /\ applyLast.hadApplied) =>
            /\ ~applyLast.navigated /\ ~applyLast.opened
            /\ ~applyLast.success /\ ~applyLast.threw
            /\ applyLast.reason = "already_applied"
            /\ SkippedBy(applyLast) = <<1, 1>>
            /\ FailedBy(applyLast) = <<0, 0>>
            /\ AppliedBy(applyLast) = <<0, 0>>
            /\ applyLast.post.jobs = applyLast.pre.jobs
    /\ (Ended /\ applyLast.success) => applyLast.jobId \in applyLast.post.jobs
    /\ \A j \in JobIds : submitted[j] <= 1

\* A job was submitted in this run, came up again and was short-circuited
Wit_C12 ==
    /\ Ended /\ applyLast.hadApplied
    /\ submitted[applyLast.jobId] = 1
    /\ applyPc = "loop"

\* C16: applyToJob never throws to run(): an exception of the try block is
\* caught and counted as one failed job (once in the session stats, once in
\* the daily stats, nothing skipped or applied), and the loop of run() is
\* never aborted by it.
Thm_C16 ==
    /\ ~applyLast.threw
    /\ applyPc # "aborted"
    /\ (Ended /\ applyLast.caught) =>
            /\ ~applyLast.success
            /\ applyLast.reason \in ErrorMessages
            /\ FailedBy(applyLast) = <<1, 1>>
            /\ SkippedBy(applyLast) = <<0, 0>>
            /\ AppliedBy(applyLast) = <<0, 0>>

\* An exception was caught and the run is inside the next applyToJob
Wit_C16 ==
    /\ Ended /\ applyLast.caught
    /\ sessionStats.failed = 1
    /\ applyPc = "navigate"

\* C18: an attempt that ends away from the job page (wrong URL after the
\* navigation, a /learning/ or /premium/ URL after the click) adds exactly
\* one to the failed counters.
Cex_C18 ==
    (Ended /\ applyLast.reason \in {"navigation_failed", "clicked_wrong_button"})
        => FailedBy(applyLast) = <<1, 1>>

\* C19: an attempt that finds no Easy Apply button adds one to the skipped
\* count of the session and of the daily stats and nothing to failed or
\* applied, and the skipped counts of the session and of the daily stats
\* agree after any sequence of attempts.
Cex_C19 ==
    /\ (Ended /\ applyLast.reason = "no_easy_apply") =>
            /\ SkippedBy(applyLast) = <<1, 1>>
            /\ FailedBy(applyLast) = <<0, 0>>
            /\ AppliedBy(applyLast) = <<0, 0>>
    /\ sessionStats.skipped = dailyStats.skipped

\* The daily stats are those of the day of the clock
StatsOfToday == dailyStats.date = today

\* C35: a record made after the date has changed is counted in the new
\* day's statistics: whenever the daily stats are those of the current date,
\* their applied, skipped and failed counts are the numbers of applications,
\* skips and failures recorded on that date (none was added to the previous
\* day's counters and erased by the daily reset).
Cex_C35 ==
    StatsOfToday =>
        /\ dailyStats.applied = ledger[DayNumber(today)].applied
        /\ dailyStats.skipped = ledger[DayNumber(today)].skipped
        /\ dailyStats.failed = ledger[DayNumber(today)].failed

\* C36: from a store whose count is the number of its job ids, after any
\* sequence of applyToJob calls appliedJobs.count is the number of job ids in
\* appliedJobs.jobs, and an attempt adds to the count and to the daily applied
\* total only for a job id that it newly records (so no id is recorded or
\* counted twice).
Thm_C36 ==
    /\ appliedJobs.count = Cardinality(appliedJobs.jobs)
    /\ Ended =>
            /\ applyLast.post.count - applyLast.pre.count
                    = Cardinality(applyLast.post.jobs \ applyLast.pre.jobs)
            /\ applyLast.post.daily.applied - applyLast.pre.daily.applied
                    = Cardinality(applyLast.post.jobs \ applyLast.pre.jobs)
            /\ applyLast.hadApplied => applyLast.post.count = applyLast.pre.count

\* Two applications were recorded, then one of the two jobs came up again
Wit_C36 ==
    /\ Ended /\ applyLast.hadApplied
    /\ submitted[applyLast.jobId] = 1
    /\ appliedJobs.count = 2
    /\ dailyStats.applied = 2

\* The job of the attempt is one the filters exclude: its title holds an
\* excluded title word or its description an excluded word
Excluded(title, description) == badTitleFound(title) \/ badWordFound(description)

\* C34: a job whose title contains an excluded title word, or whose
\* description contains an excluded word (substring match, case ignored),
\* never has its Easy Apply button clicked nor its dialog driven, and the
\* attempt on it ends recorded as one skipped job and no failed job.
Cex_C34 ==
    /\ applyPc \in {"modal", "handle"} => ~Excluded(job.title, job.description)
    /\ (Ended /\ Excluded(applyLast.title, applyLast.description)) =>
            /\ ~applyLast.opened
            /\ SkippedBy(applyLast) = <<1, 1>>
            /\ FailedBy(applyLast) = <<0, 0>>


-----------------------------------------------------------------------------
(* Claims about the retries of runBot, checked under SpecRun *)

\* The runBot() invocation f is inside bot.run()
Executing(f) == flows[f].at \in {"running", "applying"}

\* C39: an invocation of runBot calls bot.run() at most MAX_RETRIES (5)
\* times; an attempt starts only as the first of an invocation or, one more,
\* after the retry delay that follows an attempt that threw, and without
\* run-non-stop an attempt that returned ends the invocation; the dashboard's
\* running flag is false whenever no attempt is executing.
Thm_C39 ==
    /\ [](\A f \in Flows : flows[f].attempt <= MAX_RETRIES)
    /\ [](botRunning => \E f \in Flows : Executing(f))
    /\ [][\A f \in Flows :
            /\ (~Executing(f) /\ Executing(f)') =>
                    \/ flows[f].at = "delay" /\ flows'[f].attempt = flows[f].attempt + 1
                    \/ flows[f].at \in {"free", "restart"} /\ flows'[f].attempt = 1
            /\ (Executing(f) /\ ~Executing(f)') =>
                    /\ ~botRunning'
                    /\ \/ flows'[f].at = "delay" /\ flows[f].attempt < MAX_RETRIES
                       \/ flows'[f] = FreeFlow
                       \/ runNonStop /\ flows'[f].at = "restart"]_vars

\* The fifth attempt of an invocation is executing
Wit_C39 ==
    \E f \in Flows :
        /\ flows[f].at = "running"
        /\ flows[f].attempt = MAX_RETRIES
        /\ botRunning

\* The fourth attempt threw: the flag is false during the retry delay
Wit_C39_delay ==
    /\ ~botRunning
    /\ \E f \in Flows : flows[f].at = "delay" /\ flows[f].attempt = MAX_RETRIES - 1
    /\ \A f \in Flows : ~Executing(f)

-----------------------------------------------------------------------------
(* Claims about the loops of run(), checked under SpecLoop *)

\* C40: run() terminates for any finite list of search terms; for each term
\* it fetches at most 10 result pages and counts at most
\* config.search.switchAfter successful applications, and after a page that
\* returned no job cards it is done with the term.
Thm_C40 ==
    /\ [](/\ runLoop.fetched <= maxPages
          /\ runLoop.termApplications <= runLoop.switchAfter
          /\ runLoop.emptied => runLoop.pc \in {"terms", "returned"})
    /\ <>(runLoop.pc = "returned")

\* run() returned after a term that took all ten pages and all its applications
Wit_C40 ==
    /\ runLoop.pc = "returned"
    /\ ~runLoop.threw
    /\ runLoop.terms = 0
    /\ runLoop.fetched = maxPages
    /\ runLoop.termApplications = runLoop.switchAfter

\* a term was ended by its first empty page
Wit_C40_empty ==
    /\ runLoop.pc = "terms"
    /\ runLoop.emptied
    /\ runLoop.fetched = 1

-----------------------------------------------------------------------------
(* Claims about the scheduler, checked under SpecSched *)

\* A timer callback has called startBotCallback()
HasTriggered == triggered.day # NoDate

\* C37: with auto-apply enabled the scheduler starts the bot at most once per
\* calendar day: no trigger fires on a day on which one has fired already,
\* and once a trigger has fired every pending timer is set for a later day.
Cex_C37 ==
    /\ ~triggered.again
    /\ HasTriggered => \A timer \in timers : DayOf(timer.at) > triggered.day

\* C38: at most one timer is pending at any time; while auto-apply is
\* disabled no timer is pending, whether or not a triggered run is still in
\* progress; and every trigger that called startBotCallback() fired with
\* auto-apply enabled.
Thm_C38 ==
    /\ Cardinality(timers) <= 1
    /\ ~settings.autoApplyEnabled => timers = {}
    /\ HasTriggered => triggered.enabled

\* Auto-apply was disabled while a triggered run was in progress
Wit_C38 ==
    /\ triggered.running > 0
    /\ ~settings.autoApplyEnabled
    /\ timers = {}

\* A triggered run has ended with auto-apply disabled: nothing is scheduled
Wit_C38_resumed ==
    /\ HasTriggered
    /\ triggered.running = 0
    /\ ~settings.autoApplyEnabled
    /\ scheduler = NoScheduler
    /\ timers = {}

-----------------------------------------------------------------------------
(* Claims about getPresetAnswer, checked under SpecPreset *)

YesNoLeads == {"are you", "do you", "have you", "can you"}

\* The rule table the claim speaks of: the keyword predicate of each rule, in
\* source order.  A rule matches a question that holds one of its "any"
\* keywords and, when it has "also" keywords, one of those too.
RuleKeywords ==
    << [any |-> {"first name"}, also |-> {}],
       [any |-> {"last name"}, also |-> {}],
       [any |-> {"middle name"}, also |-> {}],
       [any |-> {"full name"}, also |-> {}],
       [any |-> {"phone", "mobile"}, also |-> {}],
       [any |-> {"email"}, also |-> {}],
       [any |-> {"recommend", "referr", "referred by"}, also |-> {}],
       [any |-> {"city"}, also |-> {}],
       [any |-> {"state", "province"}, also |-> {}],
       [any |-> {"zip", "postal"}, also |-> {}],
       [any |-> {"country"}, also |-> {}],
       [any |-> {"street", "address"}, also |-> {}],
       [any |-> {"years of experience", "how many years"}, also |-> {}],
       [any |-> {"visa", "sponsorship", "authorized to work"}, also |-> {"require", "need"}],
       [any |-> {"salary", "compensation", "pay", "bérigény"}, also |-> {}],
       [any |-> {"notice", "start date", "when can you"}, also |-> {}],
       [any |-> {"linkedin"}, also |-> {}],
       [any |-> {"website", "portfolio", "github"}, also |-> {}],
       [any |-> {"disability", "disabled"}, also |-> {}],
       [any |-> {"veteran"}, also |-> {}],
       [any |-> {"gender"}, also |-> {}],
       [any |-> {"ethnicity", "race"}, also |-> {}],
       [any |-> {"citizen", "authorization", "work status"}, also |-> {}],
       [any |-> {"highest"}, also |-> {"degree", "education"}],
       [any |-> YesNoLeads, also |-> {"relocate", "travel"}],
       [any |-> YesNoLeads, also |-> {"currently employed"}],
       [any |-> YesNoLeads, also |-> {"legally authorized"}] >>

RuleMatches(rule, q) ==
    /\ \E w \in rule.any : includes(q, w)
    /\ rule.also = {} \/ \E w \in rule.also : includes(q, w)

\* The first rule of the table that matches q, 0 when none does
FirstRule(q) == FirstOf({i \in 1..Len(RuleKeywords) : RuleMatches(RuleKeywords[i], q)})

\* The value of rule i for the question q
RuleValue(i, cfg, q) ==
    LET has(w) == includes(q, w)
        money(n) == NumToStr(n)
    IN  CASE i = 1 -> cfg.firstName
          [] i = 2 -> cfg.lastName
          [] i = 3 -> cfg.middleName
          [] i = 4 -> cfg.firstName \o " " \o cfg.lastName
          [] i = 5 -> cfg.phoneNumber
          [] i = 6 -> IF has("recommend") \/ has("employee") \/ has("refer")
                      THEN "" ELSE cfg.email
          [] i = 7 -> ""
          [] i = 8 -> cfg.currentCity
          [] i = 9 -> cfg.state
          [] i = 10 -> cfg.zipcode
          [] i = 11 -> cfg.country
          [] i = 12 -> cfg.street
          [] i = 13 -> cfg.yearsOfExperience
          [] i = 14 -> cfg.requireVisa
          [] i = 15 ->
                IF has("max") \/ has("upper") \/ has("sávos")
                THEN money(IF cfg.maxSalary # 0 THEN cfg.maxSalary
                           ELSE RoundQuarterUp(cfg.desiredSalary))
                ELSE IF has("current") /\ ~(has("expected") \/ has("desired")
                                            \/ has("requirement") \/ has("min") \/ has("base"))
                THEN money(cfg.currentSalary)
                ELSE money(cfg.desiredSalary)
          [] i = 16 -> IF cfg.noticePeriod = 0 THEN "Immediately"
                       ELSE NumToStr(cfg.noticePeriod) \o " days"
          [] i = 17 -> cfg.linkedInUrl
          [] i = 18 -> cfg.website
          [] i = 19 -> cfg.disabilityStatus
          [] i = 20 -> cfg.veteranStatus
          [] i = 21 -> cfg.gender
          [] i = 22 -> cfg.ethnicity
          [] i = 23 -> cfg.citizenshipStatus
          [] i = 24 -> IF cfg.hasMasters THEN "Master's Degree" ELSE "Bachelor's Degree"
          [] i = 25 -> "Yes"
          [] i = 26 -> IF cfg.recentEmployer # "" THEN "Yes" ELSE "No"
          [] i = 27 -> IF cfg.requireVisa = "No" THEN "Yes" ELSE "No"

\* The answer of the rule table: the value of the first matching rule, null
\* when no rule matches
TableAnswer(cfg, q) ==
    LET answer(i) == IF i = 0 THEN Null ELSE RuleValue(i, cfg, q)
    IN  answer(FirstRule(q))

Asked == presetLast.question # Null

\* getPresetAnswer agrees with the rule table on the question asked last,
\* and returns null exactly when no rule of the table matches
AgreesWithTable ==
    Asked =>
        /\ presetLast.value = TableAnswer(config, toLowerCase(presetLast.question))
        /\ presetLast.value = Null <=> FirstRule(toLowerCase(presetLast.question)) = 0

\* C17: getPresetAnswer is the first-match rule table over the lower-cased
\* question: it returns the value of the first rule in source order whose
\* keywords match, so the configured first name for a question containing
\* "first name" and the configured years of experience for one containing
\* "how many years", and null exactly when no rule matches.
Cex_C17 ==
    /\ AgreesWithTable
    /\ (Asked /\ includes(toLowerCase(presetLast.question), "first name"))
            => presetLast.value = config.firstName
    /\ (Asked /\ includes(toLowerCase(presetLast.question), "how many years"))
            => presetLast.value = config.yearsOfExperience

\* The question is about the e-mail address of a referrer / recommender
AsksReferrerEmail(q) ==
    /\ includes(q, "email")
    /\ \/ includes(q, "recommend") \/ includes(q, "referr")
       \/ includes(q, "refer") \/ includes(q, "employee")

\* C31: for a question that contains "email" and a referrer / recommender
\* word getPresetAnswer yields the empty value (and so not the operator's own
\* e-mail address).
Cex_C31 ==
    (Asked /\ AsksReferrerEmail(toLowerCase(presetLast.question))) => presetLast.value = ""

=============================================================================
